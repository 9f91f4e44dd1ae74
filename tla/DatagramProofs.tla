--------------------------- MODULE DatagramProofs ---------------------------
(***************************************************************************)
(* Proofs about Datagram, for any nodes and threads, any number of         *)
(* messages and fragments, any queue size and any loss: type correctness,  *)
(* what is promised of payloads and of the receive thread, and the service. *)
(***************************************************************************)
EXTENDS Datagram, QueueLemmas, FiniteSetTheorems

\* What a thread inside send_datagram knows of its message.
SendInv == \A t \in Thread :
    /\ pc[t] # "idle" => sent[t] > 0
    /\ pc[t] = "advance" => next[t] = 0
    /\ pc[t] = "put" => next[t] < size[Current(t)]

\* The fragment put next is well formed, and so is the loop index after it.
LEMMA PieceTyped ==
    ASSUME TypeOK, SendInv, NEW t \in Thread, pc[t] = "put"
    PROVE  /\ Current(t) \in Msg /\ Piece(t) \in Fragment
           /\ next[t] + 1 \in 0..MaxFrags
<1>1. Current(t) \in Msg /\ size[Current(t)] \in 0..MaxFrags
  <2>1. sent[t] \in 0..MsgLimit /\ sent[t] > 0 /\ MsgLimit \in Nat
    BY DatagramAssumption DEF TypeOK, SendInv
  <2>2. sent[t] \in 1..MsgLimit
    BY <2>1
  <2> QED
    BY <2>2 DEF TypeOK, Current, Msg
<1>2. next[t] \in Nat /\ next[t] < size[Current(t)] /\ number[Current(t)] \in FragId
  BY <1>1 DEF TypeOK, SendInv
<1>3. next[t] \in Index /\ size[Current(t)] \in 1..MaxFrags
  BY <1>1, <1>2, DatagramAssumption DEF Index
<1> QED
  BY <1>1, <1>2, <1>3, DatagramAssumption DEF Piece, Fragment

\* What the receiver takes from a sender.
LEMMA ArrivesTyped ==
    ASSUME TypeOK, NEW n \in Node, Arrives(n)
    PROVE  Head(air[n]) \in Fragment /\ air' \in [Node -> Seq(Fragment)]
<1>1. air[n] \in Seq(Fragment) /\ air[n] # <<>>
  BY DEF TypeOK, Arrives
<1>2. Head(air[n]) \in Fragment /\ Tail(air[n]) \in Seq(Fragment)
  BY <1>1, TailFacts
<1> QED
  BY <1>2 DEF TypeOK, Arrives

\* An entry with a fragment added is an entry.
LEMMA StoredTyped ==
    ASSUME TypeOK, NEW f \in Fragment
    PROVE  /\ Stored(f) \in Entry
           /\ Stored(f).frags = [(IF buffer[f.id] = None THEN [x \in Index |-> None]
                                  ELSE buffer[f.id].frags) EXCEPT ![f.idx] = f.msg]
           /\ Stored(f).total = IF buffer[f.id] = None THEN f.total
                                ELSE buffer[f.id].total
<1>1. /\ f.id \in FragId /\ f.idx \in Index /\ f.total \in 1..MaxFrags /\ f.msg \in Msg
      /\ MaxAge \in Nat
  BY DatagramAssumption DEF Fragment
<1>2. buffer[f.id] # None => buffer[f.id] \in Entry
  BY <1>1 DEF TypeOK
<1> DEFINE old == IF buffer[f.id] = None
                  THEN [total |-> f.total, frags |-> [x \in Index |-> None], age |-> 0]
                  ELSE buffer[f.id]
<1>3. old \in Entry
  BY <1>1, <1>2 DEF Entry
<1>4. Stored(f) = [old EXCEPT !.frags = [@ EXCEPT ![f.idx] = f.msg], !.age = 0]
  BY DEF Stored
<1>5. /\ old.frags = IF buffer[f.id] = None THEN [x \in Index |-> None]
                     ELSE buffer[f.id].frags
      /\ old.total = IF buffer[f.id] = None THEN f.total ELSE buffer[f.id].total
  OBVIOUS
<1> HIDE DEF old
<1>6. [old.frags EXCEPT ![f.idx] = f.msg] \in [Index -> Msg \cup {None}]
  BY <1>1, <1>3 DEF Entry
<1>7. Stored(f) \in Entry
  <2> DEFINE frags == [old.frags EXCEPT ![f.idx] = f.msg]
  <2>1. Stored(f) = [total |-> old.total, frags |-> frags, age |-> 0]
    BY <1>3, <1>4 DEF Entry
  <2>2. frags \in [Index -> Msg \cup {None}] /\ old.total \in 1..MaxFrags
        /\ 0 \in 0..(MaxAge + 1)
    BY <1>1, <1>3, <1>6 DEF Entry
  <2> HIDE DEF frags
  <2> QED
    BY <2>1, <2>2 DEF Entry
<1>8. /\ Stored(f).frags = [old.frags EXCEPT ![f.idx] = f.msg]
      /\ Stored(f).total = old.total
  BY <1>3, <1>4 DEF Entry
<1> QED
  BY <1>5, <1>7, <1>8

\* The join of a complete entry is a sequence of messages.
LEMMA JoinedTyped ==
    ASSUME NEW e \in Entry, Joinable(e)
    PROVE  Joined(e) \in Seq(Msg) /\ Len(Joined(e)) = e.total
<1>1. e.total \in 1..MaxFrags /\ e.total \in Nat
  BY DatagramAssumption DEF Entry
<1>2. \A k \in 1..e.total : Joined(e)[k] \in Msg
  BY <1>1, DatagramAssumption DEF Joined, Joinable, Have, Entry
<1>3. Joined(e) = [k \in 1..e.total |-> e.frags[k - 1]]
  BY DEF Joined
<1>4. \A k \in 1..e.total : e.frags[k - 1] \in Msg
  BY <1>2, <1>3
<1>5. Joined(e) \in Seq(Msg)
  BY <1>1, <1>3, <1>4, IsASeq
<1>6. DOMAIN Joined(e) = 1..e.total
  BY <1>3
<1> QED
  BY <1>1, <1>5, <1>6, LenProperties

LEMMA InitType == Init => TypeOK /\ SendInv
BY DatagramAssumption, EmptyFacts, EmptySeq DEF Init, TypeOK, SendInv, FragId

LEMMA NextType == TypeOK /\ SendInv /\ [Next]_vars => TypeOK' /\ SendInv'
<1> SUFFICES ASSUME TypeOK, SendInv, [Next]_vars PROVE TypeOK' /\ SendInv'
  OBVIOUS
<1> USE DatagramAssumption
<1>1. ASSUME NEW t \in Thread, Begin(t) PROVE TypeOK' /\ SendInv'
  <2> DEFINE n == NodeOf[t]
             m == <<t, sent[t] + 1>>
  <2>1. n \in Node /\ m \in Msg /\ fragId[n] \in FragId /\ sent[t] + 1 \in 1..MsgLimit
    BY <1>1 DEF Begin, TypeOK, Msg
  <2>2. TypeOK'
    <3>1. size' \in [Msg -> 0..MaxFrags] /\ number' \in [Msg -> FragId]
      BY <1>1, <2>1 DEF Begin, TypeOK
    <3>2. early' \subseteq shared' /\ shared' \subseteq Msg
      <4> PICK R : R = Rivals(m, fragId[n])
        OBVIOUS
      <4> PICK Q : Q = {w \in Rivals(m, fragId[n]) : Moving(w) \/ ~Expired(fragId[n])}
        OBVIOUS
      <4>1. shared' = Noted(shared, m, R) /\ early' = Noted(early, m, Q)
        BY <1>1 DEF Begin
      <4>2. Q \subseteq R /\ R \subseteq Msg
        BY DEF Rivals
      <4>3. early \subseteq shared /\ shared \subseteq Msg
        BY DEF TypeOK
      <4> QED
        BY <2>1, <4>1, <4>2, <4>3 DEF Noted
    <3>3. /\ sent' \in [Thread -> 0..MsgLimit] /\ next' \in [Thread -> 0..MaxFrags]
          /\ pc' \in [Thread -> {"idle", "advance", "put"}]
      BY <1>1, <2>1 DEF Begin, TypeOK
    <3>4. UNCHANGED <<fragId, videoQ, air, buffer, rxAlive, delivered>>
      BY <1>1 DEF Begin, rxVars
    <3> QED
      BY <3>1, <3>2, <3>3, <3>4 DEF TypeOK
  <2>3. SendInv'
    <3> SUFFICES ASSUME NEW u \in Thread
                 PROVE  /\ pc'[u] # "idle" => sent'[u] > 0
                        /\ pc'[u] = "advance" => next'[u] = 0
                        /\ pc'[u] = "put" => next'[u] < size'[<<u, sent'[u]>>]
      BY DEF SendInv, Current
    <3>1. CASE u = t
      BY <1>1, <2>1, <3>1 DEF Begin, TypeOK
    <3>2. CASE u # t
      <4>1. sent'[u] = sent[u] /\ pc'[u] = pc[u] /\ next'[u] = next[u]
        BY <1>1, <3>2 DEF Begin, TypeOK
      <4>2. size'[<<u, sent[u]>>] = size[<<u, sent[u]>>]
        BY <1>1, <2>1, <3>2 DEF Begin, TypeOK
      <4> QED
        BY <4>1, <4>2 DEF SendInv, Current
    <3> QED
      BY <3>1, <3>2
  <2> QED
    BY <2>2, <2>3
<1>2. ASSUME NEW t \in Thread, AdvanceId(t) PROVE TypeOK' /\ SendInv'
  <2>1. (fragId[NodeOf[t]] + 1) % IdMod \in FragId
    BY <1>2 DEF TypeOK, FragId
  <2>2. TypeOK'
    BY <1>2, <2>1 DEF AdvanceId, AfterFragment, TypeOK, rxVars, history
  <2>3. SendInv'
    <3> SUFFICES ASSUME NEW u \in Thread
                 PROVE  /\ pc'[u] # "idle" => sent'[u] > 0
                        /\ pc'[u] = "advance" => next'[u] = 0
                        /\ pc'[u] = "put" => next'[u] < size'[<<u, sent'[u]>>]
      BY DEF SendInv, Current
    <3>1. sent' = sent /\ next' = next /\ size' = size
      BY <1>2 DEF AdvanceId
    <3>2. CASE u # t
      <4>1. pc'[u] = pc[u]
        BY <1>2, <3>2 DEF AdvanceId, TypeOK
      <4> QED
        BY <3>1, <4>1 DEF SendInv, Current
    <3>3. CASE u = t
      <4>1. pc[t] = "advance" /\ pc'[t] = AfterFragment(t, 0)
        BY <1>2 DEF AdvanceId, TypeOK
      <4>2. sent[t] > 0 /\ next[t] = 0
        BY <4>1 DEF SendInv
      <4> QED
        BY <3>1, <3>3, <4>1, <4>2 DEF AfterFragment, Current
    <3> QED
      BY <3>2, <3>3
  <2> QED
    BY <2>2, <2>3
<1>3. ASSUME NEW t \in Thread, PutFragment(t) PROVE TypeOK' /\ SendInv'
  <2> DEFINE n == NodeOf[t]
  <2>1. /\ n \in Node /\ Piece(t) \in Fragment /\ next[t] + 1 \in 0..MaxFrags
        /\ VideoCap \in Nat
    BY <1>3, PieceTyped DEF PutFragment
  <2>2. /\ videoQ[n] \in Seq(Fragment) /\ Len(videoQ[n]) \in Nat
        /\ Append(videoQ[n], Piece(t)) \in Seq(Fragment)
        /\ Len(Append(videoQ[n], Piece(t))) = Len(videoQ[n]) + 1
    BY <2>1, AppendFacts, LenProperties DEF TypeOK
  <2>3. /\ videoQ' \in [Node -> Seq(Fragment)]
        /\ \A k \in Node : Len(videoQ'[k]) <= VideoCap
    BY <1>3, <2>1, <2>2 DEF PutFragment, TypeOK
  <2>4. TypeOK'
    BY <1>3, <2>1, <2>3 DEF PutFragment, AfterFragment, TypeOK, rxVars, history
  <2>5. SendInv'
    BY <1>3 DEF PutFragment, AfterFragment, TypeOK, SendInv, Current
  <2> QED
    BY <2>4, <2>5
<1>a. ASSUME UNCHANGED <<pc, sent, next, size>> PROVE SendInv'
  BY <1>a DEF SendInv, Current
<1>4. ASSUME NEW n \in Node, Transmit(n) \/ Lose(n) PROVE TypeOK' /\ SendInv'
  <2>1. /\ Head(videoQ[n]) \in Fragment /\ Tail(videoQ[n]) \in Seq(Fragment)
        /\ Len(Tail(videoQ[n])) = Len(videoQ[n]) - 1 /\ Len(videoQ[n]) \in Nat
        /\ Append(air[n], Head(videoQ[n])) \in Seq(Fragment)
    <3>1. videoQ[n] \in Seq(Fragment) /\ videoQ[n] # <<>> /\ air[n] \in Seq(Fragment)
      BY <1>4 DEF Transmit, Lose, TypeOK
    <3> QED
      BY <3>1, TailFacts, AppendFacts, LenProperties
  <2>2. /\ videoQ' \in [Node -> Seq(Fragment)] /\ air' \in [Node -> Seq(Fragment)]
        /\ \A k \in Node : Len(videoQ'[k]) <= VideoCap
    <3>1. VideoCap \in Nat /\ \A k \in Node : Len(videoQ[k]) <= VideoCap
      BY DEF TypeOK
    <3>2. videoQ' = [videoQ EXCEPT ![n] = Tail(videoQ[n])]
      BY <1>4 DEF Transmit, Lose
    <3>3. Len(videoQ[n]) - 1 <= VideoCap
      BY <2>1, <3>1
    <3>4. \A k \in Node : Len(videoQ'[k]) <= VideoCap
      BY <2>1, <3>1, <3>2, <3>3 DEF TypeOK
    <3>5. air' \in [Node -> Seq(Fragment)]
      BY <1>4, <2>1 DEF Transmit, Lose, TypeOK
    <3> QED
      BY <2>1, <3>2, <3>4, <3>5 DEF TypeOK
  <2> QED
    BY <1>4, <1>a, <2>2 DEF Transmit, Lose, TypeOK, sendVars, history, rxVars
<1>5. ASSUME NEW n \in Node, RxSingle(n) PROVE TypeOK' /\ SendInv'
  <2>1. Head(air[n]) \in Fragment /\ air' \in [Node -> Seq(Fragment)]
    BY <1>5, ArrivesTyped DEF RxSingle
  <2>2. <<Head(air[n]).msg>> \in Seq(Msg)
    BY <2>1 DEF Fragment
  <2>3. delivered' \in Seq(Seq(Msg))
    BY <1>5, <2>2, AppendFacts DEF RxSingle, TypeOK
  <2> QED
    BY <1>5, <1>a, <2>1, <2>3 DEF RxSingle, TypeOK, sendVars, history
<1>6. ASSUME NEW n \in Node, RxFragment(n) PROVE TypeOK' /\ SendInv'
  <2> DEFINE f == Head(air[n])
             e == Stored(f)
  <2>1. f \in Fragment /\ air' \in [Node -> Seq(Fragment)] /\ e \in Entry /\ f.id \in FragId
    BY <1>6, ArrivesTyped, StoredTyped DEF RxFragment, Fragment
  <2>2. buffer' \in [FragId -> Entry \cup {None}]
    <3>1. \A i \in FragId : Fresh(i) \in Entry \cup {None}
      BY DEF Fresh, TypeOK
    <3>2. [i \in FragId |-> IF i = f.id THEN e ELSE Fresh(i)] \in [FragId -> Entry \cup {None}]
      BY <2>1, <3>1
    <3> HIDE DEF e
    <3> QED
      BY <1>6, <2>1, <3>2 DEF RxFragment, e
  <2>3. delivered' \in Seq(Seq(Msg))
    <3>1. CASE IsComplete(e) /\ Joinable(e)
      <4>1. Joined(e) \in Seq(Msg)
        BY <2>1, <3>1, JoinedTyped
      <4>2. delivered' = Append(delivered, Joined(e))
        BY <1>6, <3>1 DEF RxFragment
      <4>3. delivered \in Seq(Seq(Msg))
        BY DEF TypeOK
      <4> HIDE DEF e
      <4> QED
        BY <4>1, <4>2, <4>3, AppendFacts
    <3>2. CASE ~(IsComplete(e) /\ Joinable(e))
      BY <1>6, <3>2 DEF RxFragment, TypeOK
    <3> QED
      BY <3>1, <3>2
  <2>4. rxAlive' \in BOOLEAN
    BY <1>6 DEF RxFragment
  <2> QED
    BY <1>6, <1>a, <2>1, <2>2, <2>3, <2>4 DEF RxFragment, TypeOK, sendVars, history
<1>7. CASE Tick
  <2>1. buffer' \in [FragId -> Entry \cup {None}]
    <3>1. ASSUME NEW i \in FragId, buffer[i] # None, buffer[i].age <= MaxAge
          PROVE  [buffer[i] EXCEPT !.age = @ + 1] \in Entry
      <4>1. buffer[i] \in Entry /\ buffer[i].age + 1 \in 0..(MaxAge + 1)
        BY <3>1 DEF TypeOK, Entry
      <4> QED
        BY <4>1 DEF Entry
    <3> QED
      BY <1>7, <3>1 DEF Tick, TypeOK
  <2> QED
    BY <1>7, <1>a, <2>1 DEF Tick, TypeOK, sendVars, history
<1>8. CASE UNCHANGED vars
  BY <1>8, <1>a DEF TypeOK, vars, sendVars, history, rxVars
<1> QED
  BY <1>1, <1>2, <1>3, <1>4, <1>5, <1>6, <1>7, <1>8 DEF Next

\* Type correctness, for any number of threads per node: the video queue
\* never exceeds maxsize_video and every fragment header is well formed.
THEOREM TypeCorrect == Spec => []TypeOK
<1>1. Init => TypeOK /\ SendInv
  BY InitType
<1>2. TypeOK /\ SendInv /\ [Next]_vars => TypeOK' /\ SendInv'
  BY NextType
<1> QED
  BY <1>1, <1>2, PTL DEF Spec

LEMMA SendCorrect == Spec => [](TypeOK /\ SendInv)
<1>1. Init => TypeOK /\ SendInv
  BY InitType
<1>2. TypeOK /\ SendInv /\ [Next]_vars => TypeOK' /\ SendInv'
  BY NextType
<1> QED
  BY <1>1, <1>2, PTL DEF Spec

-----------------------------------------------------------------------------
(* Numbers.  A thread that has its node to itself counts its messages, so  *)
(* a number comes back only when IdMod messages have been begun.           *)

Alone(t) == \A u \in Thread : NodeOf[u] = NodeOf[t] => u = t

\* The messages of t for which the counter has been advanced.
Count(t) == IF pc[t] = "advance" THEN sent[t] - 1 ELSE sent[t]

NumberInv == \A t \in Thread : Alone(t) =>
    /\ fragId[NodeOf[t]] = Count(t) % IdMod
    /\ \A k \in 1..sent[t] : number[<<t, k>>] = (k - 1) % IdMod

LEMMA NumberNext ==
    ASSUME TypeOK, SendInv, NumberInv, [Next]_vars
    PROVE  NumberInv'
<1> USE DatagramAssumption
<1>1. CASE UNCHANGED <<fragId, pc, sent, number>>
  BY <1>1 DEF NumberInv, Count
<1>2. ASSUME NEW t \in Thread, Begin(t) PROVE NumberInv'
  <2> SUFFICES ASSUME NEW u \in Thread, Alone(u)
               PROVE  /\ fragId'[NodeOf[u]] = Count(u)' % IdMod
                      /\ \A k \in 1..sent'[u] : number'[<<u, k>>] = (k - 1) % IdMod
    BY DEF NumberInv
  <2>1. /\ fragId[NodeOf[u]] = Count(u) % IdMod
        /\ \A k \in 1..sent[u] : number[<<u, k>>] = (k - 1) % IdMod
    BY DEF NumberInv
  <2>2. /\ sent[t] \in Nat /\ sent[u] \in Nat /\ fragId' = fragId /\ pc[t] = "idle"
        /\ <<t, sent[t] + 1>> \in Msg
        /\ number' = [number EXCEPT ![<<t, sent[t] + 1>>] = fragId[NodeOf[t]]]
        /\ sent' = [sent EXCEPT ![t] = @ + 1] /\ pc' = [pc EXCEPT ![t] = "advance"]
    BY <1>2 DEF Begin, TypeOK, Msg
  <2>3. CASE u = t
    <3>1. sent'[t] = sent[t] + 1 /\ Count(t)' = sent[t] /\ Count(t) = sent[t]
      BY <2>2 DEF Count, TypeOK
    <3>2. ASSUME NEW k \in 1..(sent[t] + 1) PROVE number'[<<t, k>>] = (k - 1) % IdMod
      <4>1. CASE k = sent[t] + 1
        <5>1. number'[<<t, k>>] = fragId[NodeOf[t]] /\ k - 1 = sent[t]
          BY <2>2, <4>1 DEF TypeOK
        <5> QED
          BY <2>1, <2>3, <3>1, <5>1
      <4>2. CASE k # sent[t] + 1
        <5>1. k \in 1..sent[t]
          BY <2>2, <4>2
        <5>2. number'[<<t, k>>] = number[<<t, k>>]
          <6>1. <<t, k>> \in Msg /\ <<t, k>> # <<t, sent[t] + 1>>
            BY <2>2, <4>2, <5>1 DEF Msg, TypeOK
          <6> QED
            BY <2>2, <6>1 DEF TypeOK
        <5> QED
          BY <2>1, <2>3, <5>1, <5>2
      <4> QED
        BY <4>1, <4>2
    <3> QED
      BY <2>1, <2>2, <2>3, <3>1, <3>2
  <2>4. CASE u # t
    <3>1. sent'[u] = sent[u] /\ Count(u)' = Count(u)
      BY <2>2, <2>4 DEF Count, TypeOK
    <3>2. ASSUME NEW k \in 1..sent[u] PROVE number'[<<u, k>>] = number[<<u, k>>]
      <4>1. <<u, k>> \in Msg /\ <<u, k>> # <<t, sent[t] + 1>>
        BY <2>4 DEF Msg, TypeOK
      <4> QED
        BY <2>2, <4>1 DEF TypeOK
    <3> QED
      BY <2>1, <2>2, <3>1, <3>2
  <2> QED
    BY <2>3, <2>4
<1>3. ASSUME NEW t \in Thread, AdvanceId(t) PROVE NumberInv'
  <2> SUFFICES ASSUME NEW u \in Thread, Alone(u)
               PROVE  fragId'[NodeOf[u]] = Count(u)' % IdMod
    BY <1>3 DEF NumberInv, AdvanceId
  <2>1. fragId[NodeOf[u]] = Count(u) % IdMod
    BY DEF NumberInv
  <2>2. /\ fragId' = [fragId EXCEPT ![NodeOf[t]] = (@ + 1) % IdMod] /\ sent' = sent
        /\ pc' = [pc EXCEPT ![t] = AfterFragment(t, 0)] /\ pc[t] = "advance"
        /\ sent[t] \in Nat /\ sent[t] > 0
    BY <1>3 DEF AdvanceId, TypeOK, SendInv
  <2>3. CASE u = t
    <3> PICK k \in Nat : k = sent[t] - 1
      BY <2>2
    <3>1. fragId'[NodeOf[t]] = (fragId[NodeOf[t]] + 1) % IdMod
      BY <2>2 DEF TypeOK
    <3>2. fragId[NodeOf[t]] = k % IdMod /\ Count(t)' = k + 1
      BY <2>1, <2>2, <2>3 DEF Count, TypeOK, AfterFragment
    <3>3. ((k % IdMod) + 1) % IdMod = (k + 1) % IdMod
      BY ReducedSum
    <3> QED
      BY <2>3, <3>1, <3>2, <3>3
  <2>4. CASE u # t
    <3>1. NodeOf[u] # NodeOf[t]
      BY <2>4 DEF Alone
    <3>2. fragId'[NodeOf[u]] = fragId[NodeOf[u]] /\ Count(u)' = Count(u)
      BY <2>2, <2>4, <3>1 DEF Count, TypeOK
    <3> QED
      BY <2>1, <3>2
  <2> QED
    BY <2>3, <2>4
<1>4. ASSUME NEW t \in Thread, PutFragment(t) PROVE NumberInv'
  <2>1. \A u \in Thread : Count(u)' = Count(u)
    BY <1>4 DEF PutFragment, Count, AfterFragment, TypeOK
  <2> QED
    BY <1>4, <2>1 DEF PutFragment, NumberInv
<1> QED
  BY <1>1, <1>2, <1>3, <1>4 DEF Next, Transmit, Lose, RxSingle, RxFragment, Tick, vars, sendVars

-----------------------------------------------------------------------------
(* Steps.  What they do to the pieces under way, to the entries and to     *)
(* what is known of a message.                                             *)

Line(n) == Range(air[n]) \cup Range(videoQ[n])

BegunMsg(m) == m[2] <= sent[m[1]]

\* What a step does to the fragments under way and to the sending thread.
LEMMA LineStep ==
    ASSUME TypeOK, SendInv, [Next]_vars
    PROVE  /\ \A n \in Node : \A f \in Line(n)' :
                 f \in Line(n) \/ \E t \in Thread : pc[t] = "put" /\ f = Piece(t) /\ n = NodeOf[t]
                                                    /\ next'[t] = next[t] + 1
           /\ \A t \in Thread : pc'[t] # "idle" =>
                 \/ pc[t] = "idle" /\ sent'[t] = sent[t] + 1 /\ next'[t] = 0
                 \/ pc[t] # "idle" /\ sent'[t] = sent[t] /\ next'[t] >= next[t]
<1>1. ASSUME NEW t \in Thread PROVE next[t] \in Nat /\ next[t] + 1 >= next[t] /\ next[t] >= next[t]
  BY DatagramAssumption DEF TypeOK
<1>2. CASE UNCHANGED <<videoQ, air, sendVars>>
  BY <1>1, <1>2 DEF Line, sendVars
<1>3. ASSUME NEW t \in Thread, Begin(t) PROVE UNCHANGED <<videoQ, air>>
         /\ \A u \in Thread : IF u = t THEN pc[u] = "idle" /\ sent'[u] = sent[u] + 1 /\ next'[u] = 0
                              ELSE pc'[u] = pc[u] /\ sent'[u] = sent[u] /\ next'[u] = next[u]
  BY <1>3 DEF Begin, TypeOK
<1>4. ASSUME NEW t \in Thread, AdvanceId(t)
      PROVE  UNCHANGED <<videoQ, air, sent, next>> /\ \A u \in Thread : pc'[u] # "idle" => pc[u] # "idle"
  BY <1>4 DEF AdvanceId, TypeOK
<1>5. ASSUME NEW t \in Thread, PutFragment(t)
      PROVE  /\ \A n \in Node : \A f \in Line(n)' :
                   f \in Line(n) \/ (pc[t] = "put" /\ f = Piece(t) /\ n = NodeOf[t]
                                     /\ next'[t] = next[t] + 1)
             /\ \A u \in Thread : pc'[u] # "idle" =>
                   pc[u] # "idle" /\ sent'[u] = sent[u] /\ next'[u] >= next[u]
  <2> DEFINE k == NodeOf[t]
  <2>1. k \in Node /\ Piece(t) \in Fragment /\ pc[t] = "put" /\ next'[t] = next[t] + 1
    BY <1>5, PieceTyped, DatagramAssumption DEF PutFragment, TypeOK
  <2>2. Range(Append(videoQ[k], Piece(t))) = Range(videoQ[k]) \cup {Piece(t)}
    BY <2>1, AppendFacts DEF TypeOK
  <2>3. \A n \in Node : \A f \in Range(videoQ'[n]) :
           f \in Range(videoQ[n]) \/ (f = Piece(t) /\ n = k)
    BY <1>5, <2>1, <2>2 DEF PutFragment, TypeOK
  <2>4. \A n \in Node : \A f \in Line(n)' : f \in Line(n) \/ (f = Piece(t) /\ n = k)
    BY <1>5, <2>3 DEF PutFragment, Line
  <2>5. ASSUME NEW u \in Thread, pc'[u] # "idle"
        PROVE  pc[u] # "idle" /\ sent'[u] = sent[u] /\ next'[u] >= next[u]
    BY <1>1, <1>5, <2>5 DEF PutFragment, TypeOK
  <2> QED
    BY <2>1, <2>4, <2>5
<1>6. ASSUME NEW k \in Node, Transmit(k) \/ Lose(k)
      PROVE  UNCHANGED sendVars /\ \A n \in Node : Line(n)' \subseteq Line(n)
  <2>1. videoQ[k] \in Seq(Fragment) /\ videoQ[k] # <<>> /\ air[k] \in Seq(Fragment)
    BY <1>6 DEF Transmit, Lose, TypeOK
  <2>2. /\ Head(videoQ[k]) \in Range(videoQ[k])
        /\ Range(Tail(videoQ[k])) \subseteq Range(videoQ[k])
        /\ Range(Append(air[k], Head(videoQ[k]))) = Range(air[k]) \cup {Head(videoQ[k])}
    BY <2>1, TailFacts, AppendFacts
  <2>3. \A n \in Node : Range(videoQ'[n]) \cup Range(air'[n])
                           \subseteq Range(videoQ[n]) \cup Range(air[n])
    BY <1>6, <2>2 DEF Transmit, Lose, TypeOK
  <2> QED
    BY <1>6, <2>3 DEF Line, Transmit, Lose
<1>7. ASSUME NEW k \in Node, RxSingle(k) \/ RxFragment(k)
      PROVE  UNCHANGED sendVars /\ \A n \in Node : Line(n)' \subseteq Line(n)
  <2>1. air[k] \in Seq(Fragment) /\ air[k] # <<>>
    BY <1>7 DEF RxSingle, RxFragment, Arrives, TypeOK
  <2>2. Range(Tail(air[k])) \subseteq Range(air[k])
    BY <2>1, TailFacts
  <2>3. \A n \in Node : Range(air'[n]) \subseteq Range(air[n])
    BY <1>7, <2>2 DEF RxSingle, RxFragment, Arrives, TypeOK
  <2> QED
    BY <1>7, <2>3 DEF Line, RxSingle, RxFragment
<1>8. ASSUME UNCHANGED sendVars, \A n \in Node : Line(n)' \subseteq Line(n)
      PROVE  /\ \A n \in Node : \A f \in Line(n)' : f \in Line(n)
             /\ \A t \in Thread : pc'[t] # "idle" =>
                   pc[t] # "idle" /\ sent'[t] = sent[t] /\ next'[t] >= next[t]
  BY <1>1, <1>8 DEF sendVars
<1>9. ASSUME NEW t \in Thread, Begin(t) \/ AdvanceId(t)
      PROVE  /\ \A n \in Node : \A f \in Line(n)' : f \in Line(n)
             /\ \A u \in Thread : pc'[u] # "idle" =>
                   \/ pc[u] = "idle" /\ sent'[u] = sent[u] + 1 /\ next'[u] = 0
                   \/ pc[u] # "idle" /\ sent'[u] = sent[u] /\ next'[u] >= next[u]
  BY <1>1, <1>3, <1>4, <1>9 DEF Line
<1>10. CASE Tick \/ UNCHANGED vars
  BY <1>2, <1>10 DEF Tick, vars
<1> QED
  BY <1>5, <1>6, <1>7, <1>8, <1>9, <1>10 DEF Next

\* A message begun keeps its size and its number.
LEMMA BegunStays ==
    ASSUME TypeOK, SendInv, [Next]_vars, NEW m \in Msg, BegunMsg(m)
    PROVE  size'[m] = size[m] /\ number'[m] = number[m] /\ BegunMsg(m)'
<1>1. m[1] \in Thread /\ m = <<m[1], m[2]>> /\ m[2] \in Nat
  BY DatagramAssumption DEF Msg
<1>2. ASSUME NEW t \in Thread, Begin(t)
      PROVE  size'[m] = size[m] /\ number'[m] = number[m] /\ BegunMsg(m)'
  <2>1. sent[t] \in Nat /\ m # <<t, sent[t] + 1>>
    BY <1>1, DatagramAssumption DEF TypeOK, BegunMsg
  <2>2. size'[m] = size[m] /\ number'[m] = number[m]
    BY <1>2, <2>1 DEF Begin, TypeOK
  <2>3. m[2] <= sent'[m[1]]
    BY <1>1, <1>2, <2>1 DEF Begin, TypeOK, BegunMsg
  <2> QED
    BY <2>2, <2>3 DEF BegunMsg
<1>3. CASE UNCHANGED <<sent, size, number>>
  BY <1>3 DEF BegunMsg
<1> QED
  BY <1>2, <1>3 DEF Next, AdvanceId, PutFragment, Transmit, Lose, RxSingle, RxFragment,
     Tick, vars, sendVars

\* Who has shared a number stays noted; only the beginning of a message adds.
LEMMA SharedStays ==
    ASSUME [Next]_vars
    PROVE  /\ shared \subseteq shared'
           /\ (shared' = shared \/ \E t \in Thread : Begin(t))
<1>1. ASSUME NEW t \in Thread, Begin(t) PROVE shared \subseteq shared'
  <2> PICK R : R = Rivals(<<t, sent[t] + 1>>, fragId[NodeOf[t]])
    OBVIOUS
  <2>1. shared' = Noted(shared, <<t, sent[t] + 1>>, R)
    BY <1>1 DEF Begin
  <2> QED
    BY <2>1 DEF Noted
<1> QED
  BY <1>1 DEF Next, AdvanceId, PutFragment, Transmit, Lose, RxSingle, RxFragment,
     Tick, vars, sendVars, history

\* An entry stays as it is but for its age, is dropped, or takes a fragment.
LEMMA BufferStep ==
    ASSUME TypeOK, [Next]_vars, NEW i \in FragId, buffer'[i] # None
    PROVE  \/ /\ buffer[i] # None
              /\ buffer'[i].frags = buffer[i].frags /\ buffer'[i].total = buffer[i].total
           \/ \E n \in Node : /\ RxFragment(n) /\ i = Head(air[n]).id
                              /\ buffer'[i] = Stored(Head(air[n]))
<1>1. ASSUME NEW n \in Node, RxFragment(n), i # Head(air[n]).id
      PROVE  buffer[i] # None /\ buffer'[i] = buffer[i]
  BY <1>1 DEF RxFragment, Fresh
<1>2. ASSUME NEW n \in Node, RxFragment(n), i = Head(air[n]).id
      PROVE  buffer'[i] = Stored(Head(air[n]))
  BY <1>2 DEF RxFragment, Fresh
<1>3. CASE Tick
  <2>1. buffer[i] # None => buffer[i] \in Entry
    BY DatagramAssumption DEF TypeOK
  <2> QED
    BY <1>3, <2>1 DEF Tick, Entry
<1>4. CASE buffer' = buffer
  BY <1>4
<1> QED
  BY <1>1, <1>2, <1>3, <1>4 DEF Next, Begin, AdvanceId, PutFragment, Transmit, Lose,
     RxSingle, vars, rxVars

-----------------------------------------------------------------------------
(* Integrity.  Pieces of several messages can meet in an entry only if the *)
(* messages were under way together with one number; such are shared.      *)

\* A fragment on the line of node n is a piece of a message of that node.
IsPiece(n, f) ==
    /\ f.id = number[f.msg] /\ BegunMsg(f.msg)
    /\ NodeOf[f.msg[1]] = n
    /\ f.total = size[f.msg] /\ f.idx < f.total

FlightInv == \A n \in Node : \A f \in Line(n) : IsPiece(n, f)

\* What an entry of number i and that total holds at index x.
IsHeld(i, total, x, m) ==
    /\ number[m] = i /\ BegunMsg(m) /\ x < size[m]
    /\ m \notin shared => total = size[m]

EntryInv == \A i \in FragId : buffer[i] # None =>
    /\ Have(buffer[i]) # {}
    /\ \A x \in Have(buffer[i]) : IsHeld(i, buffer[i].total, x, buffer[i].frags[x])

ShareInv == \A m, w \in Msg :
    m # w /\ UnderWay(m) /\ UnderWay(w) /\ number[m] = number[w] => m \in shared

\* A payload: pieces of messages begun; one message, or pieces that shared.
Sound(p) ==
    /\ p # <<>> /\ \A k \in DOMAIN p : BegunMsg(p[k])
    /\ \/ \E m \in Msg : IsMessage(p, m)
       \/ \E k \in DOMAIN p : p[k] \in shared

PayloadInv == \A i \in DOMAIN delivered : Sound(delivered[i])

IntegrityInv ==
    FlightInv /\ EntryInv /\ ShareInv /\ PayloadInv /\ NumberInv /\ LivesUnlessShared

LEMMA LineTyped ==
    ASSUME TypeOK, NEW n \in Node, NEW f \in Line(n)
    PROVE  /\ f \in Fragment /\ f.msg \in Msg /\ f.msg # None /\ f.id \in FragId
           /\ f.idx \in Index /\ f.idx \in Nat /\ f.total \in Nat \ {0}
           /\ f.msg[1] \in Thread /\ f.msg[2] \in Nat
<1>1. \A q \in Seq(Fragment) : Range(q) \subseteq Fragment
  BY LenProperties DEF Range
<1>2. f \in Fragment
  BY <1>1 DEF Line, TypeOK
<1>3. f.msg \in Msg /\ f.id \in FragId /\ f.idx \in Index /\ f.total \in 1..MaxFrags
  BY <1>2 DEF Fragment
<1>4. f.idx \in Nat /\ f.total \in Nat \ {0} /\ f.msg # None
  BY <1>3, DatagramAssumption DEF Index
<1>5. f.msg[1] \in Thread /\ f.msg[2] \in Nat
  BY <1>3, DatagramAssumption DEF Msg
<1> QED
  BY <1>2, <1>3, <1>4, <1>5

LEMMA CurrentBegun ==
    ASSUME TypeOK, SendInv, NEW t \in Thread, pc[t] # "idle"
    PROVE  Current(t) \in Msg /\ BegunMsg(Current(t))
<1>1. sent[t] \in 0..MsgLimit /\ sent[t] > 0 /\ MsgLimit \in Nat
  BY DatagramAssumption DEF TypeOK, SendInv
<1>2. sent[t] \in 1..MsgLimit /\ sent[t] <= sent[t]
  BY <1>1
<1> QED
  BY <1>2 DEF Current, Msg, BegunMsg

LEMMA UnderWayBegun ==
    ASSUME TypeOK, SendInv, FlightInv, EntryInv, NEW m \in Msg, UnderWay(m)
    PROVE  BegunMsg(m)
<1>1. CASE pc[m[1]] # "idle" /\ Current(m[1]) = m
  <2>1. m[1] \in Thread
    BY DEF Msg
  <2> QED
    BY <1>1, <2>1, CurrentBegun
<1>2. ASSUME NEW n \in Node, NEW f \in Range(videoQ[n]) \cup Range(air[n]), f.msg = m
      PROVE  BegunMsg(m)
  BY <1>2 DEF FlightInv, Line, IsPiece
<1>3. ASSUME NEW i \in FragId, buffer[i] # None, NEW x \in Index, buffer[i].frags[x] = m
      PROVE  BegunMsg(m)
  <2>1. x \in Have(buffer[i])
    BY <1>3, DatagramAssumption DEF Have
  <2> QED
    BY <1>3, <2>1 DEF EntryInv, IsHeld
<1> QED
  BY <1>1, <1>2, <1>3 DEF UnderWay, Moving

\* Only a message just begun comes under way.
LEMMA UnderWayBefore ==
    ASSUME TypeOK, SendInv, [Next]_vars, NEW m \in Msg, UnderWay(m)'
    PROVE  UnderWay(m) \/ \E t \in Thread : Begin(t) /\ m = <<t, sent[t] + 1>>
<1>1. m[1] \in Thread /\ m = <<m[1], m[2]>>
  BY DEF Msg
<1>2. ASSUME NEW n \in Node, NEW f \in Line(n), f.msg = m PROVE UnderWay(m)
  BY <1>2 DEF UnderWay, Moving, Line
<1>3. ASSUME NEW t \in Thread, pc[t] # "idle", Current(t) = m PROVE UnderWay(m)
  BY <1>1, <1>3 DEF UnderWay, Moving, Current
<1>4. ASSUME NEW n \in Node, NEW f \in Line(n)', f.msg = m PROVE UnderWay(m)
  <2>1. CASE f \in Line(n)
    BY <1>2, <1>4, <2>1
  <2>2. ASSUME NEW t \in Thread, pc[t] = "put", f = Piece(t) PROVE UnderWay(m)
    BY <1>3, <1>4, <2>2 DEF Piece
  <2> QED
    BY <2>1, <2>2, LineStep
<1>5. ASSUME pc'[m[1]] # "idle", Current(m[1])' = m
      PROVE  UnderWay(m) \/ \E t \in Thread : Begin(t) /\ m = <<t, sent[t] + 1>>
  <2> PICK t \in Thread : t = m[1]
    BY <1>1
  <2>1. sent[t] \in Nat
    BY DatagramAssumption DEF TypeOK
  <2>2. CASE pc[t] # "idle" /\ sent'[t] = sent[t]
    BY <1>3, <1>5, <2>2 DEF Current
  <2>3. CASE sent'[t] = sent[t] + 1
    <3>1. PICK u \in Thread : Begin(u)
      BY <2>1, <2>3 DEF Next, AdvanceId, PutFragment, Transmit, Lose, RxSingle,
         RxFragment, Tick, vars, sendVars
    <3>2. u = t
      BY <2>1, <2>3, <3>1 DEF Begin, TypeOK
    <3> QED
      BY <1>1, <1>5, <2>3, <3>1, <3>2 DEF Current
  <2> QED
    BY <1>5, <2>2, <2>3, LineStep
<1>6. ASSUME NEW i \in FragId, buffer'[i] # None, NEW x \in Index, buffer'[i].frags[x] = m
      PROVE  UnderWay(m)
  <2>1. ASSUME NEW j \in FragId, buffer[j] # None, buffer[j].frags[x] = m
        PROVE  UnderWay(m)
    BY <2>1 DEF UnderWay
  <2>2. CASE buffer[i] # None /\ buffer'[i].frags = buffer[i].frags
    BY <1>6, <2>1, <2>2
  <2>3. ASSUME NEW n \in Node, RxFragment(n), NEW f, f = Head(air[n]), i = f.id,
               buffer'[i] = Stored(f)
        PROVE  UnderWay(m)
    <3>1. f \in Fragment /\ f \in Line(n)
      <4>1. air[n] \in Seq(Fragment) /\ air[n] # <<>>
        BY <2>3 DEF RxFragment, Arrives, TypeOK
      <4> QED
        BY <2>3, <4>1, TailFacts DEF Line
    <3>2. f.idx \in Index /\ f.msg \in Msg /\ m # None
      BY <3>1, DatagramAssumption DEF Fragment
    <3>3. Stored(f).frags = [(IF buffer[f.id] = None THEN [y \in Index |-> None]
                              ELSE buffer[f.id].frags) EXCEPT ![f.idx] = f.msg]
      BY <3>1, StoredTyped
    <3>4. buffer[f.id] # None => buffer[f.id].frags \in [Index -> Msg \cup {None}]
      BY <2>3, DatagramAssumption DEF TypeOK, Entry
    <3>5. m = f.msg \/ (buffer[f.id] # None /\ buffer[f.id].frags[x] = m)
      BY <1>6, <2>3, <3>2, <3>3, <3>4
    <3>6. CASE m = f.msg
      BY <1>2, <3>1, <3>6
    <3>7. CASE buffer[f.id] # None /\ buffer[f.id].frags[x] = m
      BY <2>1, <2>3, <3>7
    <3> QED
      BY <3>5, <3>6, <3>7
  <2> QED
    BY <1>6, <2>2, <2>3, BufferStep
<1> QED
  BY <1>4, <1>5, <1>6 DEF UnderWay, Moving, Line

\* Whoever has the number a message is begun with is its rival.
LEMMA OnlyRivals ==
    ASSUME TypeOK, SendInv, IntegrityInv, NEW t \in Thread, Begin(t),
           NEW w \in Msg, UnderWay(w), number[w] = fragId[NodeOf[t]]
    PROVE  w \in Rivals(<<t, sent[t] + 1>>, fragId[NodeOf[t]])
<1>1. w[1] \in Thread /\ w[2] \in Nat \ {0} /\ w = <<w[1], w[2]>>
  BY DatagramAssumption DEF Msg
<1>2. BegunMsg(w)
  BY UnderWayBegun DEF IntegrityInv
<1> PICK m : m = <<t, sent[t] + 1>>
  OBVIOUS
<1>3. Rival(m, w)
  <2>1. CASE w[1] # t \/ ~Alone(t)
    BY <2>1 DEF Rival, Alone
  <2>2. CASE w[1] = t /\ Alone(t)
    <3> PICK x \in Nat : x = w[2] - 1
      BY <1>1
    <3> PICK y \in Nat : y = sent[t]
      BY DatagramAssumption DEF TypeOK
    <3>1. w[2] \in 1..sent[t] /\ x < y
      BY <1>1, <1>2, <2>2 DEF BegunMsg
    <3>2. number[w] = x % IdMod
      BY <1>1, <2>2, <3>1 DEF IntegrityInv, NumberInv
    <3>3. fragId[NodeOf[t]] = y % IdMod
      <4>1. Count(t) = y
        BY DEF Begin, Count
      <4> QED
        BY <2>2, <4>1 DEF IntegrityInv, NumberInv
    <3>4. y - x >= IdMod
      <4>1. x % IdMod = y % IdMod /\ IdMod \in Nat \ {0}
        BY <3>2, <3>3, DatagramAssumption
      <4> QED
        BY <3>1, <4>1, SameRemainder
    <3>5. m[2] - w[2] = y - x
      BY <1>1
    <3> QED
      BY <3>4, <3>5 DEF Rival
  <2> QED
    BY <2>1, <2>2
<1> QED
  BY <1>3 DEF Rivals

LEMMA ShareNext ==
    ASSUME TypeOK, SendInv, IntegrityInv, [Next]_vars
    PROVE  ShareInv'
<1> SUFFICES ASSUME NEW m \in Msg, NEW w \in Msg, m # w, UnderWay(m)', UnderWay(w)',
                    number'[m] = number'[w]
             PROVE  m \in shared'
  BY DEF ShareInv
<1>1. CASE UnderWay(m) /\ UnderWay(w)
  <2>1. number'[m] = number[m] /\ number'[w] = number[w]
    BY <1>1, UnderWayBegun, BegunStays DEF IntegrityInv
  <2> QED
    BY <1>1, <2>1, SharedStays DEF IntegrityInv, ShareInv
<1>2. ASSUME NEW t \in Thread, Begin(t), NEW a \in Msg, NEW b \in Msg,
             a = <<t, sent[t] + 1>>, UnderWay(b), number'[a] = number'[b]
      PROVE  {a, b} \subseteq shared'
  <2>1. number'[b] = number[b]
    BY <1>2, UnderWayBegun, BegunStays DEF IntegrityInv
  <2>2. number'[a] = fragId[NodeOf[t]]
    BY <1>2 DEF Begin, TypeOK
  <2> PICK R : R = Rivals(a, fragId[NodeOf[t]])
    OBVIOUS
  <2>3. b \in R
    BY <1>2, <2>1, <2>2, OnlyRivals
  <2>4. shared' = Noted(shared, a, R)
    BY <1>2 DEF Begin
  <2> QED
    BY <2>3, <2>4 DEF Noted
<1>3. UnderWay(m) \/ \E t \in Thread : Begin(t) /\ m = <<t, sent[t] + 1>>
  BY UnderWayBefore
<1>4. UnderWay(w) \/ \E t \in Thread : Begin(t) /\ w = <<t, sent[t] + 1>>
  BY UnderWayBefore
<1>5. ASSUME NEW t \in Thread, NEW u \in Thread, Begin(t), Begin(u) PROVE t = u
  BY <1>5 DEF Begin, TypeOK
<1> QED
  BY <1>1, <1>2, <1>3, <1>4, <1>5

\* The entry a fragment is stored in: what it holds is under way with the
\* number of the entry.
LEMMA StoredHolds ==
    ASSUME TypeOK, SendInv, FlightInv, EntryInv, ShareInv,
           NEW n \in Node, NEW f \in Line(n), NEW e, e = Stored(f)
    PROVE  /\ e \in Entry /\ f.idx \in Have(e) /\ e.frags[f.idx] = f.msg
           /\ \A x \in Have(e) :
                 /\ e.frags[x] \in Msg /\ UnderWay(e.frags[x])
                 /\ IsHeld(f.id, e.total, x, e.frags[x])
                 /\ \/ x = f.idx
                    \/ /\ buffer[f.id] # None /\ x \in Have(buffer[f.id])
                       /\ buffer[f.id].frags[x] = e.frags[x]
<1> PICK m \in Msg : m = f.msg
  BY LineTyped
<1>1. /\ f \in Fragment /\ f.id \in FragId /\ f.idx \in Index /\ m # None
      /\ number[m] = f.id /\ BegunMsg(m) /\ f.total = size[m] /\ f.idx < size[m]
  BY LineTyped DEF FlightInv, IsPiece
<1>2. UnderWay(m)
  BY DEF UnderWay, Moving, Line
<1>3. e \in Entry
  BY <1>1, StoredTyped
<1>4. CASE buffer[f.id] = None
  <2>1. e.frags = [[x \in Index |-> None] EXCEPT ![f.idx] = m] /\ e.total = size[m]
    BY <1>1, <1>4, StoredTyped
  <2>2. Have(e) = {f.idx} /\ e.frags[f.idx] = m
    BY <1>1, <2>1 DEF Have
  <2> QED
    BY <1>1, <1>2, <1>3, <2>1, <2>2 DEF IsHeld
<1>5. CASE buffer[f.id] # None
  <2> PICK b : b = buffer[f.id]
    OBVIOUS
  <2>1. b \in Entry /\ b # None
    BY <1>1, <1>5 DEF TypeOK
  <2>2. e.frags = [b.frags EXCEPT ![f.idx] = m] /\ e.total = b.total
    BY <1>1, <1>5, StoredTyped
  <2>3. b.frags \in [Index -> Msg \cup {None}]
    BY <2>1 DEF Entry
  <2>4. \A x \in Index : e.frags[x] = IF x = f.idx THEN m ELSE b.frags[x]
    BY <1>1, <2>2, <2>3
  <2>5. /\ Have(e) = Have(b) \cup {f.idx} /\ Have(e) \subseteq Index
        /\ \A x \in Have(b) : b.frags[x] \in Msg
    BY <1>1, <2>3, <2>4 DEF Have
  <2>6. ASSUME NEW x \in Have(b)
        PROVE  UnderWay(b.frags[x]) /\ IsHeld(f.id, b.total, x, b.frags[x])
    BY <1>1, <2>1, <2>6 DEF UnderWay, EntryInv, Have
  <2>7. Have(b) # {}
    BY <1>1, <2>1 DEF EntryInv
  <2>8. IsHeld(f.id, e.total, f.idx, m)
    <3> SUFFICES ASSUME m \notin shared PROVE e.total = size[m]
      BY <1>1 DEF IsHeld
    <3> PICK x \in Have(b) : TRUE
      BY <2>7
    <3>1. b.frags[x] = m
      BY <1>1, <1>2, <2>5, <2>6 DEF ShareInv, IsHeld
    <3> QED
      BY <2>2, <2>6, <3>1 DEF IsHeld
  <2>9. ASSUME NEW x \in Have(e)
        PROVE  /\ e.frags[x] \in Msg /\ UnderWay(e.frags[x])
               /\ IsHeld(f.id, e.total, x, e.frags[x])
               /\ x = f.idx \/ (x \in Have(b) /\ b.frags[x] = e.frags[x])
    <3>1. CASE x = f.idx
      BY <1>1, <1>2, <2>4, <2>8, <3>1
    <3>2. CASE x # f.idx
      <4>1. x \in Have(b) /\ e.frags[x] = b.frags[x]
        BY <2>4, <2>5, <3>2
      <4> QED
        BY <2>2, <2>5, <2>6, <4>1
    <3> QED
      BY <3>1, <3>2
  <2>10. f.idx \in Have(e) /\ e.frags[f.idx] = m
    BY <1>1, <2>4, <2>5
  <2> QED
    BY <1>3, <1>5, <2>9, <2>10
<1> QED
  BY <1>4, <1>5

\* A piece that has not shared its number is alone with its message.
LEMMA StoredAlike ==
    ASSUME TypeOK, SendInv, FlightInv, EntryInv, ShareInv,
           NEW n \in Node, NEW f \in Line(n), NEW e, e = Stored(f),
           NEW x \in Have(e), e.frags[x] \notin shared
    PROVE  e.total = size[e.frags[x]] /\ \A y \in Have(e) : e.frags[y] = e.frags[x]
BY StoredHolds DEF ShareInv, IsHeld

\* A complete entry that can be joined holds fragments 0 to total - 1 only.
LEMMA CompleteExact ==
    ASSUME NEW e \in Entry, IsComplete(e)
    PROVE  /\ Joinable(e) => Have(e) = 0..(e.total - 1)
           /\ (\A x \in Have(e) : x < e.total) => Joinable(e)
<1> DEFINE S == 0..(e.total - 1)
<1>1. e.total \in Nat \ {0}
  BY DatagramAssumption DEF Entry
<1>2. IsFiniteSet(S) /\ Cardinality(S) = e.total
  <2>1. 0 \in Int /\ e.total - 1 \in Int /\ ~(0 > e.total - 1)
    BY <1>1
  <2>2. /\ IsFiniteSet(0..(e.total - 1))
        /\ Cardinality(0..(e.total - 1)) = (e.total - 1) - 0 + 1
    BY <2>1, FS_Interval
  <2> QED
    BY <1>1, <2>2
<1>3. IsFiniteSet(Have(e))
  <2>1. IsFiniteSet(Index)
    BY FS_Interval, DatagramAssumption DEF Index
  <2>2. Have(e) \subseteq Index
    BY DEF Have
  <2> QED
    BY <2>1, <2>2, FS_Subset
<1>4. Cardinality(Have(e)) = Cardinality(S)
  BY <1>2 DEF IsComplete
<1>5. (\A x \in Have(e) : x < e.total) => Have(e) \subseteq S
  BY <1>1 DEF Have, Index
<1> HIDE DEF S
<1>6. Have(e) \subseteq S => Have(e) = S
  BY <1>2, <1>4, FS_Subset
<1>7. S \subseteq Have(e) => Have(e) = S
  BY <1>3, <1>4, FS_Subset
<1> QED
  BY <1>5, <1>6, <1>7 DEF Joinable, S

LEMMA HeadOnLine ==
    ASSUME TypeOK, NEW n \in Node, Arrives(n)
    PROVE  Head(air[n]) \in Line(n)
<1>1. air[n] \in Seq(Fragment) /\ air[n] # <<>>
  BY DEF Arrives, TypeOK
<1> QED
  BY <1>1, TailFacts DEF Line

LEMMA FlightNext ==
    ASSUME TypeOK, SendInv, IntegrityInv, [Next]_vars
    PROVE  FlightInv'
<1> SUFFICES ASSUME NEW n \in Node, NEW f \in Line(n)' PROVE IsPiece(n, f)'
  BY DEF FlightInv
<1>1. ASSUME f.msg \in Msg, IsPiece(n, f) PROVE IsPiece(n, f)'
  <2>1. BegunMsg(f.msg)
    BY <1>1 DEF IsPiece
  <2>2. size'[f.msg] = size[f.msg] /\ number'[f.msg] = number[f.msg] /\ BegunMsg(f.msg)'
    BY <1>1, <2>1, BegunStays
  <2> QED
    BY <1>1, <2>2 DEF IsPiece
<1>2. CASE f \in Line(n)
  BY <1>1, <1>2, LineTyped DEF IntegrityInv, FlightInv
<1>3. ASSUME NEW t \in Thread, pc[t] = "put", f = Piece(t), n = NodeOf[t] PROVE IsPiece(n, f)'
  <2>1. Current(t) \in Msg /\ BegunMsg(Current(t))
    BY <1>3, CurrentBegun
  <2>2. IsPiece(n, f) /\ f.msg \in Msg
    BY <1>3, <2>1 DEF IsPiece, Piece, SendInv, Current
  <2> QED
    BY <1>1, <2>2
<1> QED
  BY <1>2, <1>3, LineStep

LEMMA EntryNext ==
    ASSUME TypeOK, SendInv, IntegrityInv, [Next]_vars
    PROVE  EntryInv'
<1> SUFFICES ASSUME NEW i \in FragId, buffer'[i] # None, NEW b, b = buffer'[i]
             PROVE  Have(b) # {} /\ \A x \in Have(b) : IsHeld(i, b.total, x, b.frags[x])'
  <2> SUFFICES ASSUME NEW i \in FragId, buffer'[i] # None
               PROVE  /\ Have(buffer[i])' # {}
                      /\ \A x \in Have(buffer[i])' :
                            IsHeld(i, buffer[i].total, x, buffer[i].frags[x])'
    BY DEF EntryInv
  <2> QED
    BY DEF Have, IsHeld
<1>1. ASSUME NEW e, e.frags = b.frags, e.total = b.total, Have(e) # {},
             \A x \in Have(e) : e.frags[x] \in Msg /\ IsHeld(i, e.total, x, e.frags[x])
      PROVE  Have(b) # {} /\ \A x \in Have(b) : IsHeld(i, b.total, x, b.frags[x])'
  <2>1. Have(e) = Have(b)
    BY <1>1 DEF Have
  <2>2. ASSUME NEW x \in Have(b), NEW m \in Msg, m = b.frags[x]
        PROVE  IsHeld(i, b.total, x, m)'
    <3>1. IsHeld(i, b.total, x, m)
      BY <1>1, <2>1, <2>2
    <3> QED
      BY <3>1, BegunStays, SharedStays DEF IsHeld
  <2> QED
    BY <1>1, <2>1, <2>2
<1>3. CASE buffer[i] # None /\ b.frags = buffer[i].frags /\ b.total = buffer[i].total
  <2>1. buffer[i] \in Entry
    BY <1>3 DEF TypeOK
  <2>2. \A x \in Have(buffer[i]) : buffer[i].frags[x] \in Msg
    BY <2>1 DEF Entry, Have
  <2>3. /\ Have(buffer[i]) # {}
        /\ \A x \in Have(buffer[i]) : IsHeld(i, buffer[i].total, x, buffer[i].frags[x])
    BY <1>3 DEF IntegrityInv, EntryInv
  <2> QED
    BY <1>1, <1>3, <2>2, <2>3
<1>4. ASSUME NEW n \in Node, RxFragment(n), NEW f, f = Head(air[n]), i = f.id, b = Stored(f)
      PROVE  Have(b) # {} /\ \A x \in Have(b) : IsHeld(i, b.total, x, b.frags[x])'
  <2>1. f \in Line(n)
    BY <1>4, HeadOnLine DEF RxFragment
  <2>2. /\ Have(b) # {}
        /\ \A x \in Have(b) : b.frags[x] \in Msg /\ IsHeld(i, b.total, x, b.frags[x])
    BY <1>4, <2>1, StoredHolds DEF IntegrityInv
  <2> QED
    BY <1>1, <2>2
<1> QED
  BY <1>3, <1>4, BufferStep

\* p, just handed over, is made of the fragment that arrived on node n and of
\* fragments that were held.
Made(n, p) ==
    LET f == Head(air[n])
    IN  /\ Arrives(n) /\ UNCHANGED sendVars /\ UNCHANGED videoQ
        /\ delivered' = Append(delivered, p) /\ p \in Seq(Msg) /\ Sound(p)
        /\ \A m \in Msg : IsMessage(p, m) =>
              /\ f.msg = m
              /\ \A x \in 0..(size[m] - 1) :
                    x = f.idx \/ (buffer[f.id] # None /\ buffer[f.id].frags[x] = m)

LEMMA Delivery ==
    ASSUME TypeOK, SendInv, IntegrityInv, [Next]_vars
    PROVE  delivered' = delivered \/ \E n \in Node, p \in Seq(Msg) : Made(n, p)
<1>1. ASSUME NEW n \in Node, RxSingle(n) PROVE \E p \in Seq(Msg) : Made(n, p)
  <2> PICK f : f = Head(air[n])
    OBVIOUS
  <2>1. Arrives(n) /\ UNCHANGED sendVars /\ UNCHANGED videoQ /\ f.total = 1
        /\ delivered' = Append(delivered, <<f.msg>>)
    BY <1>1 DEF RxSingle, IsWhole
  <2>2. f \in Line(n)
    BY <2>1, HeadOnLine
  <2>3. f.msg \in Msg /\ f.idx \in Nat /\ size[f.msg] = 1 /\ f.idx < 1 /\ BegunMsg(f.msg)
    BY <2>1, <2>2, LineTyped DEF IntegrityInv, FlightInv, IsPiece
  <2>4. <<f.msg>> \in Seq(Msg) /\ Sound(<<f.msg>>)
    BY <2>3 DEF Sound, IsMessage
  <2>5. ASSUME NEW m \in Msg, IsMessage(<<f.msg>>, m)
        PROVE  f.msg = m /\ \A x \in 0..(size[m] - 1) : x = f.idx
    <3>1. f.msg = m
      BY <2>5 DEF IsMessage
    <3>2. \A x \in 0..0 : x = f.idx
      BY <2>3
    <3> QED
      BY <2>3, <3>1, <3>2
  <2>6. Made(n, <<f.msg>>)
    BY <2>1, <2>4, <2>5 DEF Made
  <2> QED
    BY <2>4, <2>6
<1>2. ASSUME NEW n \in Node, RxFragment(n), delivered' # delivered
      PROVE  \E p \in Seq(Msg) : Made(n, p)
  <2> PICK f : f = Head(air[n])
    OBVIOUS
  <2> PICK e : e = Stored(f)
    OBVIOUS
  <2> PICK p : p = Joined(e)
    OBVIOUS
  <2>1. /\ Arrives(n) /\ UNCHANGED sendVars /\ UNCHANGED videoQ
        /\ IsComplete(e) /\ Joinable(e) /\ delivered' = Append(delivered, p)
    BY <1>2 DEF RxFragment
  <2>2. f \in Line(n)
    BY <2>1, HeadOnLine
  <2>3. /\ e \in Entry /\ f.idx \in Have(e) /\ e.frags[f.idx] = f.msg
        /\ \A x \in Have(e) :
              /\ e.frags[x] \in Msg /\ IsHeld(f.id, e.total, x, e.frags[x])
              /\ \/ x = f.idx
                 \/ buffer[f.id] # None /\ buffer[f.id].frags[x] = e.frags[x]
    BY <2>2, StoredHolds DEF IntegrityInv
  <2>4. e.total \in Nat \ {0} /\ Have(e) = 0..(e.total - 1)
    <3>1. e.total \in Nat \ {0}
      BY <2>3, DatagramAssumption DEF Entry
    <3> QED
      BY <2>1, <2>3, <3>1, CompleteExact
  <2>5. p \in Seq(Msg) /\ Len(p) = e.total /\ p # <<>> /\ DOMAIN p = 1..e.total
        /\ \A k \in 1..e.total : p[k] = e.frags[k - 1]
    BY <2>1, <2>3, <2>4, JoinedTyped, EmptySeq DEF Joined
  <2>6. /\ \A k \in 1..e.total : k - 1 \in Have(e)
        /\ \A x \in Have(e) : x + 1 \in 1..e.total /\ (x + 1) - 1 = x
    BY <2>4
  <2>7. Sound(p)
    <3>1. \A k \in DOMAIN p : BegunMsg(p[k])
      <4>1. \A x \in Have(e) : BegunMsg(e.frags[x])
        BY <2>3 DEF IsHeld
      <4> QED
        BY <2>5, <2>6, <4>1
    <3>2. ASSUME \A k \in DOMAIN p : p[k] \notin shared PROVE IsMessage(p, f.msg)
      <4>1. f.msg \notin shared
        BY <2>3, <2>5, <2>6, <3>2
      <4>2. e.total = size[f.msg] /\ \A y \in Have(e) : e.frags[y] = f.msg
        BY <2>2, <2>3, <4>1, StoredAlike DEF IntegrityInv
      <4>3. \A k \in DOMAIN p : p[k] = f.msg
        BY <2>5, <2>6, <4>2
      <4> QED
        BY <2>5, <4>2, <4>3 DEF IsMessage
    <3>3. f.msg \in Msg
      BY <2>3
    <3> QED
      BY <2>5, <3>1, <3>2, <3>3 DEF Sound
  <2>8. ASSUME NEW m \in Msg, IsMessage(p, m)
        PROVE  /\ f.msg = m
               /\ \A x \in 0..(size[m] - 1) :
                     x = f.idx \/ (buffer[f.id] # None /\ buffer[f.id].frags[x] = m)
    <3>1. size[m] = e.total /\ \A x \in Have(e) : e.frags[x] = m
      <4>1. \A x \in Have(e) : e.frags[x] = p[x + 1]
        BY <2>5, <2>6
      <4>2. \A k \in 1..e.total : p[k] = m
        BY <2>5, <2>8 DEF IsMessage
      <4>3. \A x \in Have(e) : e.frags[x] = m
        BY <2>6, <4>1, <4>2
      <4> QED
        BY <2>5, <2>8, <4>3 DEF IsMessage
    <3> QED
      BY <2>3, <2>4, <3>1
  <2>9. Made(n, p)
    BY <2>1, <2>5, <2>7, <2>8 DEF Made
  <2> QED
    BY <2>5, <2>9
<1> QED
  BY <1>1, <1>2 DEF Next, Begin, AdvanceId, PutFragment, Transmit, Lose, Tick, vars, rxVars

LEMMA SoundStays ==
    ASSUME TypeOK, SendInv, [Next]_vars, NEW p \in Seq(Msg), Sound(p)
    PROVE  Sound(p)'
<1>1. \A k \in DOMAIN p : p[k] \in Msg
  BY LenProperties
<1>2. \A k \in DOMAIN p : BegunMsg(p[k])' /\ size'[p[k]] = size[p[k]]
  BY <1>1, BegunStays DEF Sound
<1>3. ASSUME NEW m \in Msg, IsMessage(p, m) PROVE IsMessage(p, m)'
  <2>1. 1 \in DOMAIN p /\ p[1] = m
    BY <1>3, LenProperties, EmptySeq DEF Sound, IsMessage
  <2> QED
    BY <1>2, <1>3, <2>1 DEF IsMessage
<1> QED
  BY <1>2, <1>3, SharedStays DEF Sound

LEMMA PayloadNext ==
    ASSUME TypeOK, SendInv, IntegrityInv, [Next]_vars
    PROVE  PayloadInv'
<1>1. delivered \in Seq(Seq(Msg))
  BY DEF TypeOK
<1>2. \A i \in DOMAIN delivered : Sound(delivered[i]) /\ delivered[i] \in Seq(Msg)
  BY <1>1, LenProperties DEF IntegrityInv, PayloadInv
<1>3. ASSUME NEW i \in DOMAIN delivered, NEW p, p = delivered[i] PROVE Sound(p)'
  BY <1>2, <1>3, SoundStays
<1>4. CASE delivered' = delivered
  BY <1>3, <1>4 DEF PayloadInv, Sound, IsMessage
<1>5. ASSUME NEW n \in Node, NEW p \in Seq(Msg), Made(n, p) PROVE PayloadInv'
  <2>1. delivered' = Append(delivered, p) /\ Sound(p)
    BY <1>5 DEF Made
  <2>2. Sound(p)'
    BY <2>1, SoundStays
  <2> PICK k \in Nat : k = Len(delivered)
    BY <1>1, LenProperties
  <2>3. /\ DOMAIN delivered = 1..k /\ DOMAIN delivered' = 1..(k + 1)
        /\ \A i \in 1..k : delivered'[i] = delivered[i]
        /\ delivered'[k + 1] = p
    BY <1>1, <2>1, AppendFacts, LenProperties
  <2>4. \A i \in 1..(k + 1) : i \in 1..k \/ i = k + 1
    OBVIOUS
  <2>5. ASSUME NEW i \in DOMAIN delivered', NEW q, q = delivered'[i] PROVE Sound(q)'
    BY <1>3, <2>2, <2>3, <2>4, <2>5
  <2> QED
    BY <2>5 DEF PayloadInv, Sound, IsMessage
<1> QED
  BY <1>4, <1>5, Delivery

LEMMA LivesNext ==
    ASSUME TypeOK, SendInv, IntegrityInv, [Next]_vars
    PROVE  LivesUnlessShared'
<1>1. LivesUnlessShared /\ shared \subseteq shared'
  BY SharedStays DEF IntegrityInv
<1>2. ASSUME NEW n \in Node, RxFragment(n), shared = {} PROVE rxAlive'
  <2> PICK f : f = Head(air[n])
    OBVIOUS
  <2> PICK e : e = Stored(f)
    OBVIOUS
  <2>1. f \in Line(n)
    BY <1>2, HeadOnLine DEF RxFragment
  <2>2. e \in Entry /\ \A x \in Have(e) : IsHeld(f.id, e.total, x, e.frags[x])
    BY <2>1, StoredHolds DEF IntegrityInv
  <2>3. \A x \in Have(e) : x < e.total
    BY <1>2, <2>2 DEF IsHeld
  <2>4. IsComplete(e) => Joinable(e)
    BY <2>2, <2>3, CompleteExact
  <2> QED
    BY <1>2, <2>4 DEF RxFragment
<1>3. CASE rxAlive' = rxAlive
  BY <1>1, <1>3 DEF LivesUnlessShared
<1>4. ASSUME NEW n \in Node, RxFragment(n) PROVE rxAlive' \/ shared # {}
  BY <1>2, <1>4
<1> QED
  BY <1>1, <1>3, <1>4 DEF Next, Begin, AdvanceId, PutFragment, Transmit, Lose, RxSingle,
     Tick, vars, rxVars, LivesUnlessShared

LEMMA IntegrityInit == Init => IntegrityInv
<1> SUFFICES ASSUME Init PROVE IntegrityInv
  OBVIOUS
<1>1. \A m \in Msg : ~UnderWay(m)
  BY EmptyFacts DEF Init, UnderWay, Moving, Msg
<1>2. NumberInv
  <2>1. 0 % IdMod = 0 /\ 1..0 = {}
    BY DatagramAssumption
  <2> QED
    BY <2>1, DatagramAssumption DEF Init, NumberInv, Count
<1>3. FlightInv /\ EntryInv /\ PayloadInv /\ LivesUnlessShared
  BY EmptyFacts DEF Init, FlightInv, Line, EntryInv, PayloadInv, LivesUnlessShared
<1> QED
  BY <1>1, <1>2, <1>3 DEF IntegrityInv, ShareInv

LEMMA IntegrityCorrect == Spec => []IntegrityInv
<1>1. Init => IntegrityInv
  BY IntegrityInit
<1>2. TypeOK /\ SendInv /\ IntegrityInv /\ [Next]_vars => IntegrityInv'
  BY FlightNext, EntryNext, ShareNext, PayloadNext, NumberNext, LivesNext DEF IntegrityInv
<1> QED
  BY <1>1, <1>2, SendCorrect, PTL DEF Spec

\* Whatever is lost, dropped, delayed or expired and however often the numbers
\* come round, from any nodes and threads: a payload is one message as it was
\* sent, unless a piece in it is of a message that shared its number.
THEOREM PayloadIntact == Spec => []IntactUnlessShared
<1>1. IntegrityInv => IntactUnlessShared
  BY DEF IntegrityInv, PayloadInv, Sound, IntactUnlessShared
<1> QED
  BY <1>1, IntegrityCorrect, PTL

\* ... and the receive thread dies in the join only when numbers were shared.
THEOREM ReceiverSurvives == Spec => []LivesUnlessShared
<1>1. IntegrityInv => LivesUnlessShared
  BY DEF IntegrityInv
<1> QED
  BY <1>1, IntegrityCorrect, PTL

Unshared == shared = {}

\* With a single sending thread and no more messages than there are numbers
\* nothing is shared: each payload is one message as it was sent and the
\* receive thread lives, whatever is lost, dropped or expired.
THEOREM FirstTurn ==
    ASSUME \A t, u \in Thread : t = u, MsgLimit <= IdMod
    PROVE  Spec => [](Intact /\ ReceiverLives)
<1>1. Init => Unshared
  BY DEF Init, Unshared
<1>2. ASSUME TypeOK, SendInv, shared = {}, [Next]_vars PROVE shared' = {}
  <2>1. ASSUME NEW t \in Thread, Begin(t) PROVE shared' = {}
    <3> PICK m : m = <<t, sent[t] + 1>>
      OBVIOUS
    <3> PICK R : R = Rivals(m, fragId[NodeOf[t]])
      OBVIOUS
    <3>1. m[1] = t /\ m[2] \in Nat /\ m[2] <= MsgLimit
      <4>1. sent[t] < MsgLimit
        BY <2>1 DEF Begin
      <4>2. sent[t] \in Nat /\ MsgLimit \in Nat
        BY <1>2, DatagramAssumption DEF TypeOK
      <4> QED
        BY <4>1, <4>2
    <3>2. ASSUME NEW w \in Msg PROVE ~Rival(m, w)
      <4>1. w[1] = t /\ w[2] \in Nat \ {0}
        BY DatagramAssumption DEF Msg
      <4>2. m[2] - w[2] < IdMod
        BY <3>1, <4>1, DatagramAssumption
      <4> QED
        BY <3>1, <4>1, <4>2, DatagramAssumption DEF Rival
    <3>3. R = {}
      BY <3>2 DEF Rivals
    <3>4. shared' = Noted(shared, m, R)
      BY <2>1 DEF Begin
    <3> QED
      BY <1>2, <3>3, <3>4 DEF Noted
  <2> QED
    BY <1>2, <2>1, SharedStays
<1>3. IntegrityInv /\ Unshared => Intact /\ ReceiverLives
  BY DEF IntegrityInv, PayloadInv, Sound, LivesUnlessShared, Intact, ReceiverLives, Unshared
<1>4. TypeOK /\ SendInv /\ Unshared /\ [Next]_vars => Unshared'
  BY <1>2 DEF Unshared
<1> QED
  BY <1>1, <1>3, <1>4, SendCorrect, IntegrityCorrect, PTL DEF Spec

-----------------------------------------------------------------------------
(* The service.  The pieces of a thread reach the receiver in the order in *)
(* which they were cut; so a piece that was held or delivered never comes  *)
(* again, and no earlier message of the thread comes later.                *)

Precedes(f, g) == f.msg[1] = g.msg[1] =>
    f.msg[2] < g.msg[2] \/ (f.msg[2] = g.msg[2] /\ f.idx < g.idx)

Ascending(q) == \A i, j \in 1..Len(q) : i < j => Precedes(q[i], q[j])

LineInv == \A n \in Node :
    /\ Ascending(air[n]) /\ Ascending(videoQ[n])
    /\ \A f \in Range(air[n]), g \in Range(videoQ[n]) : Precedes(f, g)

\* The pieces under way were cut before the one their thread is about to put.
AheadInv == \A t \in Thread : pc[t] # "idle" => \A n \in Node : \A f \in Line(n) :
    f.msg[1] = t => f.msg[2] < sent[t] \/ (f.msg[2] = sent[t] /\ f.idx < next[t])

\* Of message m only pieces beyond x are still to arrive.
Past(m, x) ==
    /\ \A n \in Node : \A f \in Line(n) : f.msg = m => x < f.idx
    /\ \A t \in Thread : pc[t] # "idle" /\ Current(t) = m => x < next[t]

\* Of the thread of m only pieces of later messages are still to arrive.
Over(m) ==
    /\ \A n \in Node : \A f \in Line(n) : f.msg[1] = m[1] => m[2] < f.msg[2]
    /\ \A t \in Thread : t = m[1] /\ pc[t] # "idle" => m[2] < sent[t]

HeldInv == \A i \in FragId : buffer[i] # None =>
    \A x \in Index, m \in Msg : buffer[i].frags[x] = m => Past(m, x)

DoneInv == \A i \in DOMAIN delivered, m \in Msg : IsMessage(delivered[i], m) => Over(m)

OrderInv == LineInv /\ AheadInv /\ HeldInv /\ DoneInv

LEMMA AscendingTail ==
    ASSUME NEW q \in Seq(Fragment), q # <<>>, Ascending(q)
    PROVE  Ascending(Tail(q)) /\ \A g \in Range(Tail(q)) : Precedes(Head(q), g)
<1>1. /\ Len(q) \in Nat \ {0} /\ Len(Tail(q)) = Len(q) - 1
      /\ DOMAIN Tail(q) = 1..(Len(q) - 1) /\ Head(q) = q[1]
      /\ \A i \in 1..(Len(q) - 1) : Tail(q)[i] = q[i + 1]
  BY TailFacts, LenProperties, EmptySeq
<1>2. \A i \in 1..(Len(q) - 1) : i + 1 \in 1..Len(q) /\ 1 < i + 1 /\ 1 \in 1..Len(q)
  BY <1>1
<1>3. Ascending(Tail(q))
  BY <1>1, <1>2 DEF Ascending
<1>4. ASSUME NEW g \in Range(Tail(q)) PROVE Precedes(Head(q), g)
  <2>1. PICK i \in 1..(Len(q) - 1) : g = Tail(q)[i]
    BY <1>1 DEF Range
  <2> QED
    BY <1>1, <1>2, <2>1 DEF Ascending
<1> QED
  BY <1>3, <1>4

LEMMA AscendingAppend ==
    ASSUME NEW q \in Seq(Fragment), NEW x \in Fragment, Ascending(q),
           \A f \in Range(q) : Precedes(f, x)
    PROVE  Ascending(Append(q, x))
<1> DEFINE n == Len(q)
<1>1. /\ n \in Nat /\ DOMAIN q = 1..n /\ Len(Append(q, x)) = n + 1
      /\ \A i \in 1..n : Append(q, x)[i] = q[i]
      /\ Append(q, x)[n + 1] = x
  BY AppendFacts, LenProperties
<1>2. ASSUME NEW i \in 1..(n + 1), NEW j \in 1..(n + 1), i < j
      PROVE  Precedes(Append(q, x)[i], Append(q, x)[j])
  <2>1. i \in 1..n
    BY <1>1, <1>2
  <2>2. CASE j \in 1..n
    BY <1>1, <1>2, <2>1, <2>2 DEF Ascending
  <2>3. CASE j = n + 1
    BY <1>1, <2>1, <2>3 DEF Range
  <2> QED
    BY <1>1, <2>2, <2>3
<1> QED
  BY <1>1, <1>2 DEF Ascending

\* What is under way is known of each fragment.
LEMMA LineFacts ==
    ASSUME TypeOK, FlightInv, NEW n \in Node, NEW f \in Line(n)
    PROVE  /\ f \in Fragment /\ f.idx \in Nat /\ f.msg \in Msg /\ f.msg[2] \in Nat
           /\ f.msg[1] \in Thread /\ NodeOf[f.msg[1]] = n
           /\ f.idx < size[f.msg] /\ f.msg[2] <= sent[f.msg[1]]
           /\ \A m \in Msg : m[1] = f.msg[1] /\ m[2] = f.msg[2] => m = f.msg
<1>1. \A m \in Msg : m = <<m[1], m[2]>>
  BY DEF Msg
<1> QED
  BY <1>1, LineTyped DEF FlightInv, IsPiece, BegunMsg

LEMMA SentFacts ==
    ASSUME TypeOK, NEW t \in Thread
    PROVE  sent[t] \in Nat /\ next[t] \in Nat
BY DatagramAssumption DEF TypeOK

LEMMA OverStays ==
    ASSUME TypeOK, SendInv, IntegrityInv, [Next]_vars,
           NEW m \in Msg, BegunMsg(m), Over(m)
    PROVE  Over(m)'
<1>1. m[1] \in Thread /\ m[2] \in Nat
  BY DatagramAssumption DEF Msg
<1>2. ASSUME NEW n \in Node, NEW f \in Line(n)', f.msg[1] = m[1] PROVE m[2] < f.msg[2]
  <2>1. CASE f \in Line(n)
    BY <1>2, <2>1 DEF Over
  <2>2. ASSUME NEW t \in Thread, pc[t] = "put", f = Piece(t) PROVE m[2] < f.msg[2]
    BY <1>2, <2>2 DEF Over, Piece, Current
  <2> QED
    BY <2>1, <2>2, LineStep
<1>3. ASSUME NEW t \in Thread, t = m[1], pc'[t] # "idle" PROVE m[2] < sent'[t]
  <2>1. m[2] <= sent[t] /\ sent[t] \in Nat
    BY <1>3, SentFacts DEF BegunMsg
  <2>2. CASE pc[t] = "idle" /\ sent'[t] = sent[t] + 1
    BY <1>1, <2>1, <2>2
  <2>3. CASE pc[t] # "idle" /\ sent'[t] = sent[t]
    BY <1>3, <2>3 DEF Over
  <2> QED
    BY <1>3, <2>2, <2>3, LineStep
<1> QED
  BY <1>2, <1>3 DEF Over

LEMMA PastStays ==
    ASSUME TypeOK, SendInv, IntegrityInv, [Next]_vars,
           NEW m \in Msg, BegunMsg(m), NEW x \in Nat, Past(m, x)
    PROVE  Past(m, x)'
<1>1. m[1] \in Thread /\ m[2] \in Nat
  BY DatagramAssumption DEF Msg
<1>2. ASSUME NEW n \in Node, NEW f \in Line(n)', f.msg = m PROVE x < f.idx
  <2>1. CASE f \in Line(n)
    BY <1>2, <2>1 DEF Past
  <2>2. ASSUME NEW t \in Thread, pc[t] = "put", f = Piece(t) PROVE x < f.idx
    <3>1. Current(t) = m /\ f.idx = next[t]
      BY <1>2, <2>2 DEF Piece
    <3> QED
      BY <2>2, <3>1 DEF Past
  <2> QED
    BY <2>1, <2>2, LineStep
<1>3. ASSUME NEW t \in Thread, pc'[t] # "idle", Current(t)' = m PROVE x < next'[t]
  <2>1. m = <<t, sent'[t]>> /\ m[1] = t /\ m[2] = sent'[t]
    BY <1>3 DEF Current
  <2>2. m[2] <= sent[t] /\ sent[t] \in Nat /\ next[t] \in Nat
    BY <2>1, SentFacts DEF BegunMsg
  <2>3. ~(sent'[t] = sent[t] + 1)
    BY <1>1, <2>1, <2>2
  <2>4. pc[t] # "idle" /\ sent'[t] = sent[t] /\ next'[t] >= next[t]
    BY <1>3, <2>3, LineStep
  <2>5. x < next[t]
    BY <2>1, <2>4 DEF Past, Current
  <2>6. next'[t] \in Nat
    BY NextType, SentFacts, DatagramAssumption DEF TypeOK
  <2> QED
    BY <2>2, <2>4, <2>5, <2>6
<1> QED
  BY <1>2, <1>3 DEF Past

LEMMA AheadNext ==
    ASSUME TypeOK, SendInv, IntegrityInv, OrderInv, [Next]_vars
    PROVE  AheadInv'
<1> SUFFICES ASSUME NEW t \in Thread, pc'[t] # "idle", NEW n \in Node, NEW f \in Line(n)',
                    f.msg[1] = t
             PROVE  f.msg[2] < sent'[t] \/ (f.msg[2] = sent'[t] /\ f.idx < next'[t])
  BY DEF AheadInv
<1>1. sent[t] \in Nat /\ next[t] \in Nat
  BY SentFacts
<1>2. next'[t] \in Nat
  BY NextType, DatagramAssumption DEF TypeOK
<1>3. CASE f \in Line(n)
  <2>1. f.msg[2] <= sent[t] /\ f.msg[2] \in Nat /\ f.idx \in Nat
    BY <1>3, LineFacts DEF IntegrityInv
  <2>2. CASE sent'[t] = sent[t] + 1
    BY <1>1, <2>1, <2>2
  <2>3. CASE pc[t] # "idle" /\ sent'[t] = sent[t] /\ next'[t] >= next[t]
    <3>1. f.msg[2] < sent[t] \/ (f.msg[2] = sent[t] /\ f.idx < next[t])
      BY <1>3, <2>3 DEF OrderInv, AheadInv
    <3> QED
      BY <1>1, <1>2, <2>1, <2>3, <3>1
  <2> QED
    BY <2>2, <2>3, LineStep
<1>4. ASSUME NEW u \in Thread, pc[u] = "put", f = Piece(u), next'[u] = next[u] + 1
      PROVE  f.msg[2] = sent'[t] /\ f.idx < next'[t]
  <2>1. u = t
    BY <1>4 DEF Piece, Current
  <2>2. sent'[t] = sent[t]
    BY <1>4, <2>1, LineStep
  <2>3. f.msg[2] = sent[t] /\ f.idx = next[t]
    BY <1>4, <2>1 DEF Piece, Current
  <2> QED
    BY <1>1, <1>4, <2>1, <2>2, <2>3
<1> QED
  BY <1>3, <1>4, LineStep

LEMMA LineNext ==
    ASSUME TypeOK, SendInv, IntegrityInv, OrderInv, [Next]_vars
    PROVE  LineInv'
<1>1. CASE UNCHANGED <<air, videoQ>>
  BY <1>1 DEF OrderInv, LineInv, Ascending
<1>2. ASSUME NEW t \in Thread, PutFragment(t) PROVE LineInv'
  <2> DEFINE k == NodeOf[t]
             x == Piece(t)
  <2>1. k \in Node /\ x \in Fragment /\ videoQ[k] \in Seq(Fragment)
    BY <1>2, PieceTyped, DatagramAssumption DEF PutFragment, TypeOK
  <2>2. \A n \in Node : \A f \in Line(n) : Precedes(f, x)
    BY <1>2 DEF PutFragment, OrderInv, AheadInv, Precedes, Piece, Current
  <2> HIDE DEF x
  <2>3. Ascending(Append(videoQ[k], x)) /\ Range(Append(videoQ[k], x)) = Range(videoQ[k]) \cup {x}
    <3>1. Ascending(videoQ[k]) /\ \A f \in Range(videoQ[k]) : Precedes(f, x)
      BY <2>1, <2>2 DEF OrderInv, LineInv, Line
    <3> QED
      BY <2>1, <3>1, AscendingAppend, AppendFacts
  <2>4. /\ air' = air
        /\ \A n \in Node : videoQ'[n] = videoQ[n] \/ (n = k /\ videoQ'[n] = Append(videoQ[k], x))
    BY <1>2, <2>1 DEF PutFragment, TypeOK, x
  <2>5. ASSUME NEW n \in Node
        PROVE  /\ Ascending(videoQ'[n])
               /\ \A f \in Range(air[n]), g \in Range(videoQ'[n]) : Precedes(f, g)
    <3>1. CASE videoQ'[n] = videoQ[n]
      BY <3>1 DEF OrderInv, LineInv
    <3>2. CASE n = k /\ videoQ'[n] = Append(videoQ[k], x)
      BY <2>2, <2>3, <3>2 DEF OrderInv, LineInv, Line
    <3> QED
      BY <2>4, <3>1, <3>2
  <2> QED
    BY <2>4, <2>5 DEF OrderInv, LineInv, Ascending
<1>3. ASSUME NEW k \in Node, Transmit(k) \/ Lose(k) PROVE LineInv'
  <2> DEFINE q == videoQ[k]
             h == Head(q)
  <2>1. q \in Seq(Fragment) /\ q # <<>> /\ air[k] \in Seq(Fragment)
    BY <1>3 DEF Transmit, Lose, TypeOK
  <2>2. /\ Ascending(q) /\ Ascending(air[k])
        /\ \A f \in Range(air[k]), g \in Range(q) : Precedes(f, g)
    BY DEF OrderInv, LineInv
  <2> HIDE DEF q
  <2>3. /\ h \in Fragment /\ h \in Range(q) /\ Range(Tail(q)) \subseteq Range(q)
        /\ Ascending(Tail(q)) /\ \A g \in Range(Tail(q)) : Precedes(h, g)
    BY <2>1, <2>2, TailFacts, AscendingTail
  <2> HIDE DEF h
  <2>4. Ascending(Append(air[k], h)) /\ Range(Append(air[k], h)) = Range(air[k]) \cup {h}
    BY <2>1, <2>2, <2>3, AscendingAppend, AppendFacts
  <2>5. ASSUME NEW n \in Node
        PROVE  IF n = k THEN /\ videoQ'[n] = Tail(q)
                             /\ air'[n] \in {air[k], Append(air[k], h)}
                        ELSE videoQ'[n] = videoQ[n] /\ air'[n] = air[n]
    BY <1>3 DEF Transmit, Lose, TypeOK, q, h
  <2>6. ASSUME NEW n \in Node
        PROVE  /\ Ascending(air'[n]) /\ Ascending(videoQ'[n])
               /\ \A f \in Range(air'[n]), g \in Range(videoQ'[n]) : Precedes(f, g)
    <3>1. CASE n # k
      BY <2>5, <3>1 DEF OrderInv, LineInv
    <3>2. CASE n = k /\ air'[n] = air[k]
      BY <2>2, <2>3, <2>5, <3>2
    <3>3. CASE n = k /\ air'[n] = Append(air[k], h)
      BY <2>2, <2>3, <2>4, <2>5, <3>3
    <3> QED
      BY <2>5, <3>1, <3>2, <3>3
  <2> QED
    BY <2>6 DEF LineInv, Ascending
<1>4. ASSUME NEW k \in Node, RxSingle(k) \/ RxFragment(k) PROVE LineInv'
  <2>1. air[k] \in Seq(Fragment) /\ air[k] # <<>> /\ Ascending(air[k])
    BY <1>4 DEF RxSingle, RxFragment, Arrives, TypeOK, OrderInv, LineInv
  <2>2. Ascending(Tail(air[k])) /\ Range(Tail(air[k])) \subseteq Range(air[k])
    BY <2>1, TailFacts, AscendingTail
  <2>3. /\ videoQ' = videoQ
        /\ \A n \in Node : air'[n] = air[n] \/ (n = k /\ air'[n] = Tail(air[k]))
    BY <1>4 DEF RxSingle, RxFragment, Arrives, TypeOK
  <2>4. ASSUME NEW n \in Node
        PROVE  /\ Ascending(air'[n])
               /\ \A f \in Range(air'[n]), g \in Range(videoQ[n]) : Precedes(f, g)
    BY <2>2, <2>3 DEF OrderInv, LineInv
  <2> QED
    BY <2>3, <2>4 DEF OrderInv, LineInv, Ascending
<1> QED
  BY <1>1, <1>2, <1>3, <1>4 DEF Next, Begin, AdvanceId, Tick, vars

\* The receiver takes the first piece under way: only later ones follow.
LEMMA HeadPast ==
    ASSUME TypeOK, SendInv, IntegrityInv, OrderInv,
           NEW n \in Node, Arrives(n), UNCHANGED sendVars, UNCHANGED videoQ,
           NEW f, f = Head(air[n])
    PROVE  /\ f \in Line(n)
           /\ \A k \in Node : \A g \in Line(k)' : g \in Line(k) /\ Precedes(f, g)
           /\ Past(f.msg, f.idx)'
<1>1. air[n] \in Seq(Fragment) /\ air[n] # <<>> /\ Ascending(air[n])
  BY DEF Arrives, TypeOK, OrderInv, LineInv
<1>2. /\ f \in Range(air[n]) /\ Range(Tail(air[n])) \subseteq Range(air[n])
      /\ \A g \in Range(Tail(air[n])) : Precedes(f, g)
  BY <1>1, TailFacts, AscendingTail
<1>3. f \in Line(n)
  BY <1>2 DEF Line
<1>4. air' = [air EXCEPT ![n] = Tail(air[n])] /\ videoQ' = videoQ
  BY DEF Arrives
<1>5. ASSUME NEW k \in Node, NEW g \in Line(k)' PROVE g \in Line(k) /\ Precedes(f, g)
  <2>1. g \in Range(air'[k]) \/ g \in Range(videoQ[k])
    BY <1>4, <1>5 DEF Line
  <2>2. air'[k] = air[k] \/ (k = n /\ air'[k] = Tail(air[n]))
    BY <1>4 DEF TypeOK
  <2>3. g \in Line(k)
    BY <1>2, <2>1, <2>2 DEF Line
  <2>4. CASE f.msg[1] # g.msg[1]
    BY <2>3, <2>4 DEF Precedes
  <2>5. CASE f.msg[1] = g.msg[1]
    <3>1. k = n
      BY <1>3, <2>3, <2>5, LineFacts DEF IntegrityInv
    <3>2. air'[n] = Tail(air[n])
      BY <1>4 DEF TypeOK
    <3>3. CASE g \in Range(Tail(air[n]))
      BY <1>2, <2>3, <3>3
    <3>4. CASE g \in Range(videoQ[n])
      BY <1>2, <2>3, <3>4 DEF OrderInv, LineInv
    <3> QED
      BY <2>1, <3>1, <3>2, <3>3, <3>4
  <2> QED
    BY <2>4, <2>5
<1>6. f.msg[2] \in Nat /\ f.idx \in Nat
  BY <1>3, LineFacts DEF IntegrityInv
<1>7. ASSUME NEW k \in Node, NEW g \in Line(k)', g.msg = f.msg PROVE f.idx < g.idx
  BY <1>5, <1>6, <1>7 DEF Precedes
<1>8. ASSUME NEW t \in Thread, pc[t] # "idle", Current(t) = f.msg PROVE f.idx < next[t]
  <2>1. f.msg[1] = t /\ f.msg[2] = sent[t]
    BY <1>8 DEF Current
  <2>2. f.msg[2] < sent[t] \/ (f.msg[2] = sent[t] /\ f.idx < next[t])
    BY <1>3, <1>8, <2>1 DEF OrderInv, AheadInv
  <2> QED
    BY <1>6, <2>1, <2>2
<1>9. Past(f.msg, f.idx)'
  BY <1>7, <1>8 DEF Past, Current, sendVars
<1> QED
  BY <1>3, <1>5, <1>9

\* When each of its pieces is past, a message is over.
LEMMA AllPastOver ==
    ASSUME TypeOK, SendInv, IntegrityInv, OrderInv,
           NEW n \in Node, Arrives(n), UNCHANGED sendVars, UNCHANGED videoQ,
           NEW m \in Msg, m = Head(air[n]).msg,
           \A x \in 0..(size[m] - 1) : Past(m, x)'
    PROVE  Over(m)'
<1> PICK f : f = Head(air[n])
  OBVIOUS
<1>1. f \in Line(n) /\ \A k \in Node : \A g \in Line(k)' : g \in Line(k) /\ Precedes(f, g)
  BY HeadPast
<1>2. /\ f.msg = m /\ f.idx \in Nat /\ m[1] \in Thread /\ m[2] \in Nat /\ size[m] \in Nat
  BY <1>1, LineFacts, DatagramAssumption DEF TypeOK, IntegrityInv
<1>3. \A x \in Nat : x < size[m] => x \in 0..(size[m] - 1)
  BY <1>2
<1>4. ASSUME NEW k \in Node, NEW g \in Line(k)', g.msg[1] = m[1] PROVE m[2] < g.msg[2]
  <2>1. g \in Line(k) /\ Precedes(f, g)
    BY <1>1
  <2>2. CASE m[2] = g.msg[2]
    <3>1. g.msg = m /\ g.idx \in Nat /\ g.idx < size[m]
      BY <1>2, <1>4, <2>1, <2>2, LineFacts DEF IntegrityInv
    <3>2. Past(m, g.idx)'
      BY <1>3, <3>1
    <3>3. g.idx < g.idx
      BY <3>1, <3>2 DEF Past
    <3> QED
      BY <3>1, <3>3
  <2> QED
    BY <1>2, <1>4, <2>1, <2>2 DEF Precedes
<1>5. ASSUME NEW t \in Thread, t = m[1], pc[t] # "idle" PROVE m[2] < sent[t]
  <2>1. m[2] < sent[t] \/ (m[2] = sent[t] /\ f.idx < next[t])
    BY <1>1, <1>2, <1>5 DEF OrderInv, AheadInv
  <2>2. CASE m[2] = sent[t] /\ f.idx < next[t]
    <3>1. Current(t) = m
      BY <1>5, <2>2 DEF Current, Msg
    <3>2. pc[t] = "put"
      BY <1>2, <1>5, <2>2, SentFacts DEF SendInv, TypeOK
    <3>3. next[t] < size[m] /\ next[t] \in Nat
      BY <3>1, <3>2, SentFacts DEF SendInv
    <3>4. ASSUME NEW y \in Nat, y = next[t] PROVE Past(m, y)'
      BY <1>3, <3>3, <3>4
    <3>5. next[t] < next[t]
      BY <1>5, <3>1, <3>3, <3>4 DEF Past, Current, sendVars
    <3> QED
      BY <3>3, <3>5
  <2> QED
    BY <2>1, <2>2
<1> QED
  BY <1>4, <1>5 DEF Over, sendVars

\* A piece that is held is a piece of a message begun.
LEMMA HeldFacts ==
    ASSUME TypeOK, IntegrityInv, NEW i \in FragId, buffer[i] # None,
           NEW x \in Index, NEW m \in Msg, buffer[i].frags[x] = m
    PROVE  x \in Nat /\ BegunMsg(m)
<1>1. x \in Have(buffer[i])
  BY DatagramAssumption DEF Have
<1> QED
  BY <1>1, DatagramAssumption DEF IntegrityInv, EntryInv, IsHeld, Index

LEMMA HeldNext ==
    ASSUME TypeOK, SendInv, IntegrityInv, OrderInv, [Next]_vars
    PROVE  HeldInv'
<1> SUFFICES ASSUME NEW i \in FragId, buffer'[i] # None, NEW x \in Index, NEW m \in Msg,
                    buffer'[i].frags[x] = m
             PROVE  Past(m, x)'
  BY DEF HeldInv
<1>1. ASSUME NEW j \in FragId, buffer[j] # None, buffer[j].frags[x] = m PROVE Past(m, x)'
  <2>1. x \in Nat /\ BegunMsg(m) /\ Past(m, x)
    BY <1>1, HeldFacts DEF OrderInv, HeldInv
  <2> QED
    BY <2>1, PastStays
<1>2. ASSUME NEW n \in Node, RxFragment(n), NEW f, f = Head(air[n]), i = f.id,
             buffer'[i] = Stored(f)
      PROVE  Past(m, x)'
  <2>1. Arrives(n) /\ UNCHANGED sendVars /\ UNCHANGED videoQ
    BY <1>2 DEF RxFragment
  <2>2. f \in Line(n) /\ Past(f.msg, f.idx)'
    BY <1>2, <2>1, HeadPast
  <2>3. f.id \in FragId
    BY <2>2, LineTyped
  <2>4. x \in Have(Stored(f)) /\ m = Stored(f).frags[x]
    BY <1>2, DatagramAssumption DEF Have
  <2>5. CASE x = f.idx
    <3>1. m = f.msg
      BY <2>2, <2>4, <2>5, StoredHolds DEF IntegrityInv
    <3> QED
      BY <2>2, <2>5, <3>1
  <2>6. CASE x # f.idx
    <3>1. buffer[f.id] # None /\ buffer[f.id].frags[x] = m
      BY <2>2, <2>4, <2>6, StoredHolds DEF IntegrityInv
    <3> QED
      BY <1>1, <2>3, <3>1
  <2> QED
    BY <2>5, <2>6
<1> QED
  BY <1>1, <1>2, BufferStep

\* A message handed over is over, and comes after all of its thread that were.
LEMMA HandoverOver ==
    ASSUME TypeOK, SendInv, IntegrityInv, OrderInv, [Next]_vars,
           NEW n \in Node, NEW p \in Seq(Msg), Made(n, p), NEW m \in Msg, IsMessage(p, m)
    PROVE  /\ BegunMsg(m) /\ Over(m)'
           /\ \A w \in Msg : w[1] = m[1] /\ Over(w) => w[2] < m[2]
<1> PICK f : f = Head(air[n])
  OBVIOUS
<1>1. /\ Arrives(n) /\ UNCHANGED sendVars /\ UNCHANGED videoQ /\ f.msg = m
      /\ \A x \in 0..(size[m] - 1) :
            x = f.idx \/ (buffer[f.id] # None /\ buffer[f.id].frags[x] = m)
  BY DEF Made
<1>2. f \in Line(n) /\ Past(m, f.idx)'
  BY <1>1, HeadPast
<1>3. f.id \in FragId /\ BegunMsg(m) /\ size[m] \in 0..MaxFrags
  BY <1>1, <1>2, LineTyped DEF IntegrityInv, FlightInv, IsPiece, TypeOK
<1>4. ASSUME NEW x \in 0..(size[m] - 1) PROVE Past(m, x)'
  <2>1. x \in Index
    BY <1>3, DatagramAssumption DEF Index
  <2>2. CASE x = f.idx
    BY <1>2, <2>2
  <2>3. CASE buffer[f.id] # None /\ buffer[f.id].frags[x] = m
    <3>1. x \in Nat /\ BegunMsg(m) /\ Past(m, x)
      BY <1>3, <2>1, <2>3, HeldFacts DEF OrderInv, HeldInv
    <3> QED
      BY <3>1, PastStays
  <2> QED
    BY <1>1, <2>2, <2>3
<1>5. Over(m)'
  BY <1>1, <1>4, AllPastOver
<1>6. \A w \in Msg : w[1] = m[1] /\ Over(w) => w[2] < m[2]
  BY <1>1, <1>2 DEF Over
<1> QED
  BY <1>3, <1>5, <1>6

LEMMA DoneNext ==
    ASSUME TypeOK, SendInv, IntegrityInv, OrderInv, [Next]_vars
    PROVE  DoneInv'
<1>1. delivered \in Seq(Seq(Msg))
  BY DEF TypeOK
<1>2. ASSUME NEW p \in Seq(Msg), Sound(p), NEW m \in Msg, IsMessage(p, m)'
      PROVE  IsMessage(p, m) /\ BegunMsg(m)
  <2>1. 1 \in DOMAIN p /\ p[1] = m
    BY <1>2, LenProperties, EmptySeq DEF Sound, IsMessage
  <2>2. BegunMsg(m)
    BY <1>2, <2>1 DEF Sound
  <2> QED
    BY <1>2, <2>2, BegunStays DEF IsMessage
<1>3. ASSUME NEW i \in DOMAIN delivered, NEW p, p = delivered[i], NEW m \in Msg,
             IsMessage(p, m)'
      PROVE  Over(m)'
  <2>1. p \in Seq(Msg) /\ Sound(p)
    BY <1>1, <1>3, LenProperties DEF IntegrityInv, PayloadInv
  <2>2. IsMessage(p, m) /\ BegunMsg(m)
    BY <1>2, <1>3, <2>1
  <2>3. Over(m)
    BY <1>3, <2>2 DEF OrderInv, DoneInv
  <2> QED
    BY <2>2, <2>3, OverStays
<1>4. CASE delivered' = delivered
  BY <1>3, <1>4 DEF DoneInv, IsMessage
<1>5. ASSUME NEW n \in Node, NEW p \in Seq(Msg), Made(n, p) PROVE DoneInv'
  <2>1. delivered' = Append(delivered, p) /\ Sound(p)
    BY <1>5 DEF Made
  <2>2. ASSUME NEW m \in Msg, IsMessage(p, m)' PROVE Over(m)'
    <3>1. IsMessage(p, m)
      BY <1>2, <2>1, <2>2
    <3> QED
      BY <1>5, <3>1, HandoverOver
  <2> PICK k \in Nat : k = Len(delivered)
    BY <1>1, LenProperties
  <2>3. /\ DOMAIN delivered = 1..k /\ DOMAIN delivered' = 1..(k + 1)
        /\ \A i \in 1..k : delivered'[i] = delivered[i]
        /\ delivered'[k + 1] = p
    BY <1>1, <2>1, AppendFacts, LenProperties
  <2>4. \A i \in 1..(k + 1) : i \in 1..k \/ i = k + 1
    OBVIOUS
  <2>5. ASSUME NEW i \in DOMAIN delivered', NEW q, q = delivered'[i], NEW m \in Msg,
               IsMessage(q, m)'
        PROVE  Over(m)'
    BY <1>3, <2>2, <2>3, <2>4, <2>5
  <2> QED
    BY <2>5 DEF DoneInv, IsMessage
<1> QED
  BY <1>4, <1>5, Delivery

LEMMA OrderInit == Init => OrderInv
BY DatagramAssumption, EmptyFacts DEF Init, OrderInv, LineInv, Ascending, AheadInv,
   HeldInv, DoneInv, Line

LEMMA OrderCorrect == Spec => []OrderInv
<1>1. Init => OrderInv
  BY OrderInit
<1>2. TypeOK /\ SendInv /\ IntegrityInv /\ OrderInv /\ [Next]_vars => OrderInv'
  BY LineNext, AheadNext, HeldNext, DoneNext DEF OrderInv
<1> QED
  BY <1>1, <1>2, SendCorrect, IntegrityCorrect, PTL DEF Spec

\* Only messages begun have shared a number.
NotedInv == \A m \in shared : BegunMsg(m)

LEMMA NotedNext ==
    ASSUME TypeOK, SendInv, IntegrityInv, NotedInv, [Next]_vars
    PROVE  NotedInv'
<1>1. ASSUME NEW m \in shared PROVE BegunMsg(m)'
  BY <1>1, BegunStays DEF NotedInv, TypeOK
<1>2. ASSUME NEW t \in Thread, Begin(t) PROVE NotedInv'
  <2> PICK m : m = <<t, sent[t] + 1>>
    OBVIOUS
  <2> PICK R : R = Rivals(m, fragId[NodeOf[t]])
    OBVIOUS
  <2>1. shared' = Noted(shared, m, R)
    BY <1>2 DEF Begin
  <2>2. BegunMsg(m)'
    BY <1>2, SentFacts DEF Begin, BegunMsg, TypeOK
  <2>3. ASSUME NEW w \in R PROVE BegunMsg(w)'
    <3>1. w \in Msg /\ BegunMsg(w)
      BY UnderWayBegun DEF Rivals, IntegrityInv
    <3> QED
      BY <3>1, BegunStays
  <2> QED
    BY <1>1, <2>1, <2>2, <2>3 DEF NotedInv, Noted
<1> QED
  BY <1>1, <1>2, SharedStays DEF NotedInv

LEMMA NotedCorrect == Spec => []NotedInv
<1>1. Init => NotedInv
  BY DEF Init, NotedInv
<1>2. TypeOK /\ SendInv /\ IntegrityInv /\ NotedInv /\ [Next]_vars => NotedInv'
  BY NotedNext
<1> QED
  BY <1>1, <1>2, SendCorrect, IntegrityCorrect, PTL DEF Spec

\* A payload is one message or none, and stays what it is.
LEMMA WholeIs ==
    ASSUME TypeOK, SendInv, NEW p \in Seq(Msg), Sound(p)
    PROVE  /\ Whole(p) \in Msg \cup {None}
           /\ \A m \in Msg : IsMessage(p, m) <=> Whole(p) = m
           /\ [Next]_vars => Whole(p)' = Whole(p)
<1>1. 1 \in DOMAIN p /\ p[1] \in Msg /\ BegunMsg(p[1])
  BY LenProperties, EmptySeq DEF Sound
<1>2. \A m \in Msg : IsMessage(p, m) => m = p[1]
  BY <1>1 DEF IsMessage
<1>3. Whole(p) = IF IsMessage(p, p[1]) THEN p[1] ELSE None
  BY <1>1, <1>2 DEF Whole
<1>4. None \notin Msg
  BY DatagramAssumption
<1>5. ASSUME [Next]_vars PROVE Whole(p)' = Whole(p)
  <2>1. \A m \in Msg : IsMessage(p, m)' => m = p[1]
    BY <1>1 DEF IsMessage
  <2>2. Whole(p)' = IF IsMessage(p, p[1])' THEN p[1] ELSE None
    BY <1>1, <2>1 DEF Whole
  <2>3. size'[p[1]] = size[p[1]]
    BY <1>1, <1>5, BegunStays
  <2>4. IsMessage(p, p[1])' <=> IsMessage(p, p[1])
    BY <2>3 DEF IsMessage
  <2> QED
    BY <1>3, <2>2, <2>4
<1> QED
  BY <1>1, <1>2, <1>3, <1>4, <1>5

\* What the application sees: the messages the payloads are.
Handed == [i \in DOMAIN delivered |-> Whole(delivered[i])]

LEMMA HandedIs ==
    ASSUME TypeOK, SendInv, IntegrityInv
    PROVE  /\ DOMAIN Handed = DOMAIN delivered /\ Len(Handed) = Len(delivered)
           /\ Handed \in Seq(Msg \cup {None})
           /\ [Next]_vars /\ delivered' = delivered => Handed' = Handed
<1>1. \A i \in DOMAIN delivered : delivered[i] \in Seq(Msg) /\ Sound(delivered[i])
  BY LenProperties DEF TypeOK, IntegrityInv, PayloadInv
<1> PICK k \in Nat : k = Len(delivered)
  BY LenProperties DEF TypeOK
<1>2. DOMAIN delivered = 1..k
  BY LenProperties DEF TypeOK
<1>3. \A i \in 1..k : Whole(delivered[i]) \in Msg \cup {None}
  BY <1>1, <1>2, WholeIs
<1>4. Handed = [i \in 1..k |-> Whole(delivered[i])]
  BY <1>2 DEF Handed
<1>5. Handed \in Seq(Msg \cup {None})
  BY <1>3, <1>4, IsASeq
<1>6. Len(Handed) = k
  BY <1>4, <1>5, LenProperties
<1>7. ASSUME [Next]_vars, delivered' = delivered PROVE Handed' = Handed
  <2>1. ASSUME NEW i \in DOMAIN delivered, NEW p, p = delivered[i] PROVE Whole(p)' = Whole(p)
    BY <1>1, <1>7, <2>1, WholeIs
  <2>2. \A i \in DOMAIN delivered : Whole(delivered[i])' = Whole(delivered[i])
    BY <1>7, <2>1 DEF Whole, IsMessage
  <2> QED
    BY <1>7, <2>2 DEF Handed
<1> QED
  BY <1>2, <1>4, <1>5, <1>6, <1>7

LEMMA HandedAppend ==
    ASSUME TypeOK, SendInv, IntegrityInv, [Next]_vars,
           NEW p \in Seq(Msg), Sound(p), delivered' = Append(delivered, p)
    PROVE  Handed' = Append(Handed, Whole(p))
<1> PICK k \in Nat : k = Len(delivered)
  BY LenProperties DEF TypeOK
<1> PICK w \in Msg \cup {None} : w = Whole(p)
  BY WholeIs
<1>1. /\ DOMAIN delivered = 1..k /\ DOMAIN delivered' = 1..(k + 1)
      /\ \A i \in 1..k : delivered'[i] = delivered[i]
      /\ delivered'[k + 1] = p
  BY AppendFacts, LenProperties DEF TypeOK
<1> PICK h : h = Append(Handed, w)
  OBVIOUS
<1>2. /\ DOMAIN h = 1..(k + 1) /\ h \in Seq(Msg \cup {None})
      /\ \A i \in 1..k : h[i] = Handed[i]
      /\ h[k + 1] = w
  BY HandedIs, AppendFacts, LenProperties
<1>3. ASSUME NEW i \in 1..k, NEW q, q = delivered[i] PROVE Whole(q)' = Handed[i]
  <2>1. q \in Seq(Msg) /\ Sound(q)
    <3>1. i \in DOMAIN delivered /\ delivered \in Seq(Seq(Msg))
      BY <1>1, <1>3 DEF TypeOK
    <3>2. q \in Seq(Msg)
      BY <1>3, <3>1, LenProperties
    <3> QED
      BY <1>3, <3>1, <3>2 DEF IntegrityInv, PayloadInv
  <2> QED
    BY <1>1, <1>3, <2>1, WholeIs DEF Handed
<1>4. Whole(p)' = w
  BY WholeIs
<1>5. ASSUME NEW i \in 1..(k + 1), NEW q, q = delivered'[i]
      PROVE  Whole(q)' = h[i]
  <2>1. CASE i \in 1..k
    BY <1>1, <1>2, <1>3, <1>5, <2>1
  <2>2. CASE i = k + 1
    BY <1>1, <1>2, <1>4, <1>5, <2>2
  <2>3. i \in 1..k \/ i = k + 1
    OBVIOUS
  <2> QED
    BY <2>1, <2>2, <2>3
<1>6. \A i \in 1..(k + 1) : (Whole(delivered[i]))' = h[i]
  <2> SUFFICES ASSUME NEW i \in 1..(k + 1) PROVE (Whole(delivered[i]))' = h[i]
    OBVIOUS
  <2> PICK q : q = delivered'[i]
    OBVIOUS
  <2>1. Whole(q)' = h[i]
    BY <1>5
  <2>2. (Whole(delivered[i]))' = Whole(q)'
    BY DEF Whole, IsMessage
  <2> QED
    BY <2>1, <2>2
<1>7. Handed' = [i \in 1..(k + 1) |-> h[i]]
  BY <1>1, <1>6 DEF Handed
<1>8. h = [i \in 1..(k + 1) |-> h[i]]
  BY <1>2, LenProperties
<1> QED
  BY <1>7, <1>8

\* Every step is one of the service's or none, for any nodes and threads: what
\* is handed over is a message that was sent and comes after those of its
\* thread handed over before, or is garbled and some messages shared a number.
THEOREM DatagramImplementsService == Spec => ImplementsService
<1>1. Init => Service!Init
  BY DEF Init, Service!Init
<1>2. TypeOK /\ SendInv /\ IntegrityInv /\ OrderInv /\ NotedInv /\ NotedInv' /\ [Next]_vars
      => [Service!Next]_<<sent, shared, Handed>>
  <2> SUFFICES ASSUME TypeOK, SendInv, IntegrityInv, OrderInv, NotedInv, NotedInv',
                      [Next]_vars
               PROVE  Service!Next \/ UNCHANGED <<sent, shared, Handed>>
    OBVIOUS
  <2>1. ASSUME NEW t \in Thread, Begin(t) PROVE Service!Send(t)
    <3>1. sent[t] < MsgLimit /\ sent' = [sent EXCEPT ![t] = @ + 1] /\ delivered' = delivered
      BY <2>1 DEF Begin, rxVars
    <3>2. Handed' = Handed
      BY <3>1, HandedIs
    <3>3. shared' \subseteq Msg
      BY NextType DEF TypeOK
    <3>4. shared' \subseteq {m \in Msg : m[2] <= sent'[m[1]]}
      BY <3>3 DEF NotedInv, BegunMsg
    <3> QED
      BY <3>1, <3>2, <3>4, SharedStays
         DEF Service!Send, Service!Begun, Service!Msg, Msg, Handed
  <2>2. ASSUME NEW n \in Node, NEW p \in Seq(Msg), Made(n, p)
        PROVE  Service!Garble \/ \E m \in Msg : Service!Deliver(m)
    <3>1. /\ Sound(p) /\ sent' = sent /\ shared' = shared
          /\ Handed' = Append(Handed, Whole(p))
      BY <2>2, HandedAppend DEF Made, sendVars, history
    <3>2. ASSUME NEW m \in Msg, IsMessage(p, m) PROVE Service!Deliver(m)
      <4>1. /\ BegunMsg(m) /\ Whole(p) = m
            /\ \A w \in Msg : w[1] = m[1] /\ Over(w) => w[2] < m[2]
        BY <2>2, <3>1, <3>2, HandoverOver, WholeIs
      <4>2. ASSUME NEW i \in DOMAIN Handed, Handed[i] # None, Handed[i][1] = m[1]
            PROVE  Handed[i][2] < m[2]
        <5> PICK w \in Msg \cup {None} : w = Handed[i]
          BY HandedIs, LenProperties
        <5> PICK q \in Seq(Msg) : q = delivered[i] /\ Sound(q) /\ i \in DOMAIN delivered
          BY HandedIs, LenProperties DEF TypeOK, IntegrityInv, PayloadInv
        <5>1. w \in Msg /\ w = Whole(q)
          BY <4>2 DEF Handed
        <5>2. IsMessage(q, w)
          BY <5>1, WholeIs
        <5>3. Over(w)
          BY <5>1, <5>2 DEF OrderInv, DoneInv
        <5> QED
          BY <4>1, <4>2, <5>1, <5>3
      <4> QED
        BY <3>1, <4>1, <4>2
           DEF Service!Deliver, Service!Begun, Service!Msg, Msg, Handed, BegunMsg
    <3>3. ASSUME \A m \in Msg : ~IsMessage(p, m) PROVE Service!Garble
      <4>1. shared # {} /\ Whole(p) = None
        BY <3>1, <3>3 DEF Sound, Whole
      <4> QED
        BY <3>1, <4>1 DEF Service!Garble, Handed
    <3> QED
      BY <3>2, <3>3
  <2>3. CASE delivered' = delivered /\ sent' = sent /\ shared' = shared
    BY <2>3, HandedIs
  <2>4. \/ \E t \in Thread : Begin(t)
        \/ delivered' # delivered
        \/ delivered' = delivered /\ sent' = sent /\ shared' = shared
    BY DEF Next, AdvanceId, PutFragment, Transmit, Lose, RxSingle, RxFragment, Tick,
       vars, sendVars, history, rxVars
  <2> QED
    BY <2>1, <2>2, <2>3, <2>4, Delivery DEF Service!Next, Service!Msg, Msg
<1> QED
  BY <1>1, <1>2, SendCorrect, IntegrityCorrect, OrderCorrect, NotedCorrect, PTL
     DEF Spec, ImplementsService, Service!Spec, Handed

=============================================================================
