------------------------------ MODULE MacArq ------------------------------
(***************************************************************************)
(* Reliable transfer between LionMesh nodes: MACLayer.send_reliable, the   *)
(* TX worker, and the receive dispatcher _handle_rx of phy/mac_simple.py,  *)
(* composed over a radio that loses frames but keeps their order.          *)
(*                                                                         *)
(* Three kinds of threads run on a node.  A caller is inside               *)
(* send_reliable; its pc names the statement it is about to execute.  The  *)
(* TX worker polls the three priority queues (txPos is the queue it looks  *)
(* at next).  The receive thread takes decoded frames one at a time.  They *)
(* share _pending and _ack_evt without a lock.  CPython gives up its lock  *)
(* only at calls and loop heads, so the gaps kept here are those around    *)
(* Event.clear, Queue.put, Event.wait and Event.set; the test and reset of *)
(* _pending by the receive thread is one step.                             *)
(***************************************************************************)
EXTENDS AdaptiveMcs, Integers, Sequences, FiniteSets, Functions

CONSTANTS
    Node,           \* nodes that run this code
    Caller,         \* threads that call send_reliable
    NodeOf,         \* the node a caller runs on
    Dest,           \* the address a caller sends to: a node or Bcast
    Hears,          \* the nodes whose receiver is in range of a node
    Bcast,          \* BCAST_ADDR
    Stranger,       \* a station that implements all of the frame types
    SizeOf,         \* payload class of a caller, see PayloadSize
    MaxRetries,     \* MACConfig.max_retries
    SeqMod,         \* sequence numbers are modulo this, 2^16 in the code
    ControlCap, VideoCap, DataCap,      \* sizes of the three TX queues
    StartMcs,       \* MACConfig.data_mcs
    CallLimit,      \* bound: calls per caller
    VideoLimit,     \* bound: datagrams of each node
    ForeignLimit,   \* bound: frames from the stranger
    None            \* Python's None

\* What a payload's length does to it.  "ok" fits an OFDM frame; "phy" fits
\* the MAC length field (16 bits) but not the 14 bits of the SIGNAL field,
\* so that no receiver decodes it; "len" does not fit the MAC field either.
PayloadSize == {"ok", "phy", "len"}

Msg == Caller \X (1..CallLimit)
SeqNo == 0..(SeqMod - 1)

ASSUME MacAssumption ==
    /\ IsFiniteSet(Caller)
    /\ NodeOf \in [Caller -> Node]
    /\ Dest \in [Caller -> Node \cup {Bcast}]
    /\ Hears \in [Node -> SUBSET Node]
    /\ SizeOf \in [Caller -> PayloadSize]
    /\ Bcast \notin Node /\ Stranger \notin Node /\ Bcast # Stranger
    /\ MaxRetries \in Nat \ {0}
    /\ SeqMod \in Nat \ {0}
    /\ ControlCap \in Nat /\ VideoCap \in Nat /\ DataCap \in Nat
    /\ StartMcs \in Mcs
    /\ CallLimit \in Nat /\ ForeignLimit \in Nat
    /\ VideoLimit \in [Node -> Nat]
    /\ None \notin Msg

\* A MACFrame.  "msg" is not sent: it names the call an AREQ belongs to and
\* the call an ACK answers, so that the properties can tell them apart.
\* DATA frames are in module Datagram; here they only take queue slots.
AreqFrame == [type : {"AREQ"}, seq : SeqNo, src : Node,
              dst : Node \cup {Bcast}, msg : Msg]
AckFrame == [type : {"ACK"}, seq : SeqNo, src : Node,
             dst : Node \cup {Stranger}, msg : Msg \cup {None}]
ForeignFrame == [type : {"NACK", "PROBE"}, seq : SeqNo, src : {Stranger},
                 dst : Node, msg : {None}]
Frame == AreqFrame \cup AckFrame \cup ForeignFrame

ASSUME FrameAssumption == None \notin Frame

VARIABLES
    \* send_reliable, per caller
    pc,         \* next statement
    calls,      \* number of calls made, the last one may be running
    frame,      \* the local variable frame
    attempt,    \* the loop variable
    result,     \* what a call returned
    \* MACLayer, per node
    seq,        \* _seq
    pending,    \* _pending
    ackEvt,     \* the flag of _ack_evt
    amc,        \* _amc
    \* transmit side, per node
    ctrlQ,      \* PRIO_CONTROL queue
    videoQ,     \* PRIO_VIDEO queue, only its length
    dataQ,      \* PRIO_DATA queue
    txPos,      \* the queue the TX worker looks at next
    txAlive,    \* the TX worker has not died of an exception
    \* receive side, per node
    inbox,      \* decoded frames not yet handled
    rxPc,       \* "idle", or the call the handler is about to make
    rxMsg,      \* the payload it is about to deliver
    \* history
    owner,      \* the call a sequence number was last given to
    accepted,   \* calls whose payload some node has taken
    acked,      \* calls whose ACK their node has matched
    heard,      \* attempts whose ACK the receive thread is about to report
    ackedInTime, \* calls whose ACK was reported within the attempt it met
    delivered,  \* the payloads a node has handed to on_rx
    wakeups,    \* how often the receive thread decided to wake callers
    \* environment
    videoSent, foreignSent

callerVars == <<pc, calls, frame, attempt, result>>
ackVars == <<pending, ackEvt>>
queueVars == <<ctrlQ, videoQ, dataQ>>
txVars == <<txPos, txAlive>>
rxVars == <<inbox, rxPc, rxMsg>>
histVars == <<owner, accepted, acked, heard, ackedInTime, delivered, wakeups>>
envVars == <<videoSent, foreignSent>>
vars == <<callerVars, seq, ackVars, amc, queueVars, txVars, rxVars,
          histVars, envVars>>

CallersOf(n) == {c \in Caller : NodeOf[c] = n}
Current(c) == <<c, calls[c]>>

Init ==
    /\ pc = [c \in Caller |-> "idle"]
    /\ calls = [c \in Caller |-> 0]
    /\ frame = [c \in Caller |-> None]
    /\ attempt = [c \in Caller |-> 0]
    /\ result = [m \in Msg |-> "none"]
    /\ seq = [n \in Node |-> 0]
    /\ pending = [n \in Node |-> None]
    /\ ackEvt = [n \in Node |-> FALSE]
    /\ amc = [n \in Node |-> AmcStart(StartMcs)]
    /\ ctrlQ = [n \in Node |-> <<>>]
    /\ videoQ = [n \in Node |-> 0]
    /\ dataQ = [n \in Node |-> <<>>]
    /\ txPos = [n \in Node |-> "control"]
    /\ txAlive = [n \in Node |-> TRUE]
    /\ inbox = [n \in Node |-> <<>>]
    /\ rxPc = [n \in Node |-> "idle"]
    /\ rxMsg = [n \in Node |-> None]
    /\ owner = [n \in Node |-> [s \in SeqNo |-> None]]
    /\ accepted = {}
    /\ acked = {}
    /\ heard = [n \in Node |-> {}]
    /\ ackedInTime = {}
    /\ delivered = [n \in Node |-> <<>>]
    /\ wakeups = [n \in Node |-> 0]
    /\ videoSent = [n \in Node |-> 0]
    /\ foreignSent = 0

-----------------------------------------------------------------------------
(* Sequence numbers: one 16-bit counter per node for all frame types.      *)

NextSeq(n) == (seq[n] + 1) % SeqMod

\* f uses number s of node n: a request of n, or an answer to one.
Uses(f, n, s) ==
    /\ f.seq = s
    /\ \/ f.type = "AREQ" /\ f.src = n
       \/ f.type = "ACK" /\ f.dst = n

InFlight == UNION {Range(ctrlQ[k]) \cup Range(dataQ[k]) \cup Range(inbox[k]) :
                      k \in Node}

\* Bound on time: the counter does not come round (65,536 frames) while a
\* frame or a call with the number is still under way (a second at most).
Fresh(n, s) ==
    /\ \A f \in InFlight : ~Uses(f, n, s)
    /\ pending[n] # None => pending[n].seq # s
    /\ \A c \in CallersOf(n) : pc[c] # "idle" => frame[c].seq # s

-----------------------------------------------------------------------------
(* send_reliable                                                           *)

\* The frame gets its number, once for all attempts.
Call(c) ==
    LET n == NodeOf[c]
        m == <<c, calls[c] + 1>>
    IN  /\ pc[c] = "idle" /\ calls[c] < CallLimit
        /\ Fresh(n, seq[n])
        /\ calls' = [calls EXCEPT ![c] = @ + 1]
        /\ frame' = [frame EXCEPT ![c] =
                        [type |-> "AREQ", seq |-> seq[n], src |-> n,
                         dst |-> Dest[c], msg |-> m]]
        /\ attempt' = [attempt EXCEPT ![c] = 1]
        /\ seq' = [seq EXCEPT ![n] = NextSeq(n)]
        /\ owner' = [owner EXCEPT ![n][seq[n]] = m]
        /\ pc' = [pc EXCEPT ![c] = "arm"]
        /\ UNCHANGED <<result, ackVars, amc, queueVars, txVars, rxVars,
                       accepted, acked, heard, ackedInTime, delivered, wakeups,
                       envVars>>

\* self._pending = frame
Arm(c) ==
    /\ pc[c] = "arm"
    /\ pending' = [pending EXCEPT ![NodeOf[c]] = frame[c]]
    /\ pc' = [pc EXCEPT ![c] = "clear"]
    /\ UNCHANGED <<calls, frame, attempt, result, seq, ackEvt, amc, queueVars,
                   txVars, rxVars, histVars, envVars>>

\* Fault: the clear() is forgotten.
ClearEvtForgotten(c) ==
    /\ pc[c] = "clear"
    /\ pc' = [pc EXCEPT ![c] = "put"]
    /\ UNCHANGED <<calls, frame, attempt, result, seq, ackVars, amc, queueVars,
                   txVars, rxVars, histVars, envVars>>

\* self._ack_evt.clear()
ClearEvt(c) ==
    /\ pc[c] = "clear"
    /\ ackEvt' = [ackEvt EXCEPT ![NodeOf[c]] = FALSE]
    /\ pc' = [pc EXCEPT ![c] = "put"]
    /\ UNCHANGED <<calls, frame, attempt, result, seq, pending, amc, queueVars,
                   txVars, rxVars, histVars, envVars>>

\* Fault: the data queue is a stack.
PutDataLifo(c) ==
    LET n == NodeOf[c]
    IN  /\ pc[c] = "put"
        /\ Len(dataQ[n]) < DataCap
        /\ dataQ' = [dataQ EXCEPT ![n] = <<frame[c]>> \o @]
        /\ pc' = [pc EXCEPT ![c] = "enter"]
        /\ UNCHANGED <<calls, frame, attempt, result, seq, ackVars, amc, ctrlQ,
                       videoQ, txVars, rxVars, histVars, envVars>>

\* The put blocks while the data queue is full.
PutData(c) ==
    LET n == NodeOf[c]
    IN  /\ pc[c] = "put"
        /\ Len(dataQ[n]) < DataCap
        /\ dataQ' = [dataQ EXCEPT ![n] = Append(@, frame[c])]
        /\ pc' = [pc EXCEPT ![c] = "enter"]
        /\ UNCHANGED <<calls, frame, attempt, result, seq, ackVars, amc, ctrlQ,
                       videoQ, txVars, rxVars, histVars, envVars>>

\* Event.wait returns at once if the flag is set, else it joins the waiters.
EnterWait(c) ==
    /\ pc[c] = "enter"
    /\ pc' = [pc EXCEPT ![c] = IF ackEvt[NodeOf[c]] THEN "woken" ELSE "waiting"]
    /\ UNCHANGED <<calls, frame, attempt, result, seq, ackVars, amc, queueVars,
                   txVars, rxVars, histVars, envVars>>

\* Fault: one attempt too many.
TimeoutOffByOne(c) ==
    /\ pc[c] = "waiting"
    /\ IF attempt[c] <= MaxRetries
       THEN /\ attempt' = [attempt EXCEPT ![c] = @ + 1]
            /\ pc' = [pc EXCEPT ![c] = "arm"]
       ELSE /\ pc' = [pc EXCEPT ![c] = "giveUp"]
            /\ UNCHANGED attempt
    /\ UNCHANGED <<calls, frame, result, seq, ackVars, amc, queueVars,
                   txVars, rxVars, histVars, envVars>>

\* Fault: wait() without a timeout.
TimeoutNever(c) == pc[c] = "waiting" /\ MaxRetries = 0 /\ UNCHANGED vars

\* ack_timeout has passed; the loop goes on or falls through.
Timeout(c) ==
    /\ pc[c] = "waiting"
    /\ IF attempt[c] < MaxRetries
       THEN /\ attempt' = [attempt EXCEPT ![c] = @ + 1]
            /\ pc' = [pc EXCEPT ![c] = "arm"]
       ELSE /\ pc' = [pc EXCEPT ![c] = "giveUp"]
            /\ UNCHANGED attempt
    /\ UNCHANGED <<calls, frame, result, seq, ackVars, amc, queueVars,
                   txVars, rxVars, histVars, envVars>>

ReturnTrue(c) ==
    /\ pc[c] = "woken"
    /\ amc' = [amc EXCEPT ![NodeOf[c]] = AmcAck(@)]
    /\ result' = [result EXCEPT ![Current(c)] = "ok"]
    /\ pc' = [pc EXCEPT ![c] = "idle"]
    /\ UNCHANGED <<calls, frame, attempt, seq, ackVars, queueVars,
                   txVars, rxVars, histVars, envVars>>

ReturnFalse(c) ==
    /\ pc[c] = "giveUp"
    /\ amc' = [amc EXCEPT ![NodeOf[c]] = AmcNack(@)]
    /\ pending' = [pending EXCEPT ![NodeOf[c]] = None]
    /\ result' = [result EXCEPT ![Current(c)] = "failed"]
    /\ pc' = [pc EXCEPT ![c] = "idle"]
    /\ UNCHANGED <<calls, frame, attempt, seq, ackEvt, queueVars,
                   txVars, rxVars, histVars, envVars>>

\* One fragment of a datagram: it takes a number, and is dropped silently
\* when the video queue is full.
SendDatagram(n) ==
    /\ videoSent[n] < VideoLimit[n]
    /\ videoSent' = [videoSent EXCEPT ![n] = @ + 1]
    /\ seq' = [seq EXCEPT ![n] = NextSeq(n)]
    /\ videoQ' = [videoQ EXCEPT ![n] = IF @ < VideoCap THEN @ + 1 ELSE @]
    /\ UNCHANGED <<callerVars, ackVars, amc, ctrlQ, dataQ, txVars, rxVars,
                   histVars, foreignSent>>

-----------------------------------------------------------------------------
(* The TX worker: PriorityTXQueue.get, frame.encode, tx_frame, _tx_fn.     *)

\* The radio hands a frame to any of the receivers in range.
Transmit(n, f) ==
    \E R \in SUBSET Hears[n] :
        inbox' = [k \in Node |-> IF k \in R THEN Append(inbox[k], f) ELSE inbox[k]]

TxControl(n) ==
    /\ txAlive[n] /\ txPos[n] = "control" /\ ctrlQ[n] # <<>>
    /\ Transmit(n, Head(ctrlQ[n]))
    /\ ctrlQ' = [ctrlQ EXCEPT ![n] = Tail(@)]
    /\ UNCHANGED <<callerVars, seq, ackVars, amc, videoQ, dataQ, txVars,
                   rxPc, rxMsg, histVars, envVars>>

TxVideo(n) ==
    /\ txAlive[n] /\ txPos[n] = "video" /\ videoQ[n] > 0
    /\ videoQ' = [videoQ EXCEPT ![n] = @ - 1]
    /\ txPos' = [txPos EXCEPT ![n] = "control"]
    /\ UNCHANGED <<callerVars, seq, ackVars, amc, ctrlQ, dataQ, txAlive,
                   rxVars, histVars, envVars>>

\* encode() of a payload beyond 65,535 bytes raises struct.error, which the
\* worker's "except queue.Empty" does not catch: the thread ends.
TxData(n) ==
    /\ txAlive[n] /\ txPos[n] = "data" /\ dataQ[n] # <<>>
    /\ dataQ' = [dataQ EXCEPT ![n] = Tail(@)]
    /\ txPos' = [txPos EXCEPT ![n] = "control"]
    /\ LET f == Head(dataQ[n])
           size == SizeOf[f.msg[1]]
       IN  /\ IF size = "ok" THEN Transmit(n, f) ELSE UNCHANGED inbox
           /\ txAlive' = [txAlive EXCEPT ![n] = size # "len"]
    /\ UNCHANGED <<callerVars, seq, ackVars, amc, ctrlQ, videoQ,
                   rxPc, rxMsg, histVars, envVars>>

\* get_nowait found the queue empty; after the last one the worker pauses
\* for 5 ms at most and starts again.
TxMiss(n) ==
    /\ txAlive[n]
    /\ \/ /\ txPos[n] = "control" /\ ctrlQ[n] = <<>>
          /\ txPos' = [txPos EXCEPT ![n] = "video"]
       \/ /\ txPos[n] = "video" /\ videoQ[n] = 0
          /\ txPos' = [txPos EXCEPT ![n] = "data"]
       \/ /\ txPos[n] = "data" /\ dataQ[n] = <<>>
          /\ txPos' = [txPos EXCEPT ![n] = "control"]
    /\ UNCHANGED <<callerVars, seq, ackVars, amc, queueVars, txAlive, rxVars,
                   histVars, envVars>>

TxStep(n) == TxControl(n) \/ TxVideo(n) \/ TxData(n) \/ TxMiss(n)

-----------------------------------------------------------------------------
(* The receive thread: _handle_rx, one decoded frame at a time.            *)

ForMe(n, f) == f.dst \in {n, Bcast}

Receives(n, type) ==
    /\ rxPc[n] = "idle" /\ inbox[n] # <<>>
    /\ Head(inbox[n]).type = type
    /\ ForMe(n, Head(inbox[n]))
    /\ inbox' = [inbox EXCEPT ![n] = Tail(@)]

\* Fault: the control queue has no limit.
SendControlUnbounded(n, f) == ctrlQ' = [ctrlQ EXCEPT ![n] = Append(@, f)]

\* _send_control: dropped when the control queue is full.
SendControl(n, f) ==
    ctrlQ' = [ctrlQ EXCEPT ![n] = IF Len(@) < ControlCap THEN Append(@, f) ELSE @]

AckFor(n, f) == [type |-> "ACK", seq |-> f.seq, src |-> n, dst |-> f.src,
                 msg |-> f.msg]

\* The ACK is queued before the payload is delivered.
RxAreq(n) ==
    LET f == Head(inbox[n])
    IN  /\ Receives(n, "AREQ")
        /\ SendControl(n, AckFor(n, f))
        /\ accepted' = accepted \cup {f.msg}
        /\ rxPc' = [rxPc EXCEPT ![n] = "deliver"]
        /\ rxMsg' = [rxMsg EXCEPT ![n] = f.msg]
        /\ UNCHANGED <<callerVars, seq, ackVars, amc, videoQ, dataQ, txVars,
                       owner, acked, heard, ackedInTime, delivered, wakeups, envVars>>

\* self._on_rx(frame.payload): a copy per request received, none is dropped.
RxDeliver(n) ==
    /\ rxPc[n] = "deliver"
    /\ delivered' = [delivered EXCEPT ![n] = Append(@, rxMsg[n])]
    /\ rxPc' = [rxPc EXCEPT ![n] = "idle"]
    /\ rxMsg' = [rxMsg EXCEPT ![n] = None]
    /\ UNCHANGED <<callerVars, seq, ackVars, amc, queueVars, txVars, inbox,
                   owner, accepted, acked, heard, ackedInTime, wakeups, envVars>>

RxProbe(n) ==
    /\ Receives(n, "PROBE")
    /\ SendControl(n, AckFor(n, Head(inbox[n])))
    /\ UNCHANGED <<callerVars, seq, ackVars, amc, videoQ, dataQ, txVars, rxPc,
                   rxMsg, histVars, envVars>>

\* Fault: any ACK will do.
MatchesAny(n, f) == pending[n] # None

Matches(n, f) == pending[n] # None /\ f.seq = pending[n].seq

\* The running attempts of node n that have armed _pending and not timed out.
Listening(n) == {<<Current(c), attempt[c]>> :
    c \in {k \in CallersOf(n) : pc[k] \in {"clear", "put", "enter", "waiting"}}}

\* The source of the ACK is not looked at, only its number.
RxAck(n) ==
    LET m == pending[n].msg
    IN  /\ Receives(n, "ACK")
        /\ IF Matches(n, Head(inbox[n]))
           THEN /\ pending' = [pending EXCEPT ![n] = None]
                /\ rxPc' = [rxPc EXCEPT ![n] = "set"]
                /\ wakeups' = [wakeups EXCEPT ![n] = @ + 1]
                /\ acked' = acked \cup {m}
                /\ heard' = [heard EXCEPT ![n] = {x \in Listening(n) : x[1] = m}]
           ELSE UNCHANGED <<pending, rxPc, wakeups, acked, heard>>
        /\ UNCHANGED <<callerVars, seq, ackEvt, amc, queueVars, txVars, rxMsg,
                       owner, accepted, ackedInTime, delivered, envVars>>

\* A NACK wakes the caller like an ACK does; _pending stays.
RxNack(n) ==
    /\ Receives(n, "NACK")
    /\ amc' = [amc EXCEPT ![n] = AmcNack(@)]
    /\ IF Matches(n, Head(inbox[n]))
       THEN /\ rxPc' = [rxPc EXCEPT ![n] = "set"]
            /\ wakeups' = [wakeups EXCEPT ![n] = @ + 1]
       ELSE UNCHANGED <<rxPc, wakeups>>
    /\ UNCHANGED <<callerVars, seq, ackVars, queueVars, txVars, rxMsg, owner,
                   accepted, acked, heard, ackedInTime, delivered, envVars>>

\* self._ack_evt.set(): the flag goes up and every waiter is released.
RxSet(n) ==
    /\ rxPc[n] = "set"
    /\ ackEvt' = [ackEvt EXCEPT ![n] = TRUE]
    /\ pc' = [c \in Caller |-> IF NodeOf[c] = n /\ pc[c] = "waiting"
                               THEN "woken" ELSE pc[c]]
    /\ rxPc' = [rxPc EXCEPT ![n] = "idle"]
    /\ ackedInTime' = ackedInTime \cup {x[1] : x \in heard[n] \cap Listening(n)}
    /\ heard' = [heard EXCEPT ![n] = {}]
    /\ UNCHANGED <<calls, frame, attempt, result, seq, pending, amc, queueVars,
                   txVars, inbox, rxMsg, owner, accepted, acked, delivered,
                   wakeups, envVars>>

\* A frame for another node is dropped.
RxIgnore(n) ==
    /\ rxPc[n] = "idle" /\ inbox[n] # <<>>
    /\ ~ForMe(n, Head(inbox[n]))
    /\ inbox' = [inbox EXCEPT ![n] = Tail(@)]
    /\ UNCHANGED <<callerVars, seq, ackVars, amc, queueVars, txVars, rxPc,
                   rxMsg, histVars, envVars>>

RxStep(n) == \/ RxAreq(n) \/ RxDeliver(n) \/ RxProbe(n) \/ RxAck(n)
             \/ RxNack(n) \/ RxSet(n) \/ RxIgnore(n)

\* NACK and PROBE are handled but never sent by this code: they come from
\* another implementation of the documented frame format.
Foreign(n) ==
    /\ foreignSent < ForeignLimit
    /\ foreignSent' = foreignSent + 1
    /\ \E f \in ForeignFrame :
          /\ f.dst = n
          /\ inbox' = [inbox EXCEPT ![n] = Append(@, f)]
    /\ UNCHANGED <<callerVars, seq, ackVars, amc, queueVars, txVars, rxPc,
                   rxMsg, histVars, videoSent>>

-----------------------------------------------------------------------------
CallerStep(c) == \/ Arm(c) \/ ClearEvt(c) \/ PutData(c) \/ EnterWait(c)
                 \/ Timeout(c) \/ ReturnTrue(c) \/ ReturnFalse(c)

Next ==
    \/ \E c \in Caller : Call(c) \/ CallerStep(c)
    \/ \E n \in Node : \/ SendDatagram(n) \/ TxStep(n) \/ RxStep(n)
                       \/ Foreign(n)

Spec == Init /\ [][Next]_vars

\* Every thread keeps running: Python schedules all of them, and a wait ends
\* by its timeout.  Nothing is assumed of the radio, of new calls, of video.
Fairness ==
    /\ \A c \in Caller : WF_vars(CallerStep(c))
    /\ \A n \in Node : WF_vars(TxStep(n)) /\ WF_vars(RxStep(n))

FairSpec == Spec /\ Fairness

-----------------------------------------------------------------------------
(* Properties                                                              *)

TypeCaller ==
    /\ pc \in [Caller -> {"idle", "arm", "clear", "put", "enter", "waiting",
                           "woken", "giveUp"}]
    /\ calls \in [Caller -> 0..CallLimit]
    /\ frame \in [Caller -> AreqFrame \cup {None}]
    /\ attempt \in [Caller -> 0..MaxRetries]
    /\ result \in [Msg -> {"none", "ok", "failed"}]
    /\ \A c \in Caller : pc[c] # "idle" => calls[c] > 0 /\ frame[c] # None

TypeMac ==
    /\ seq \in [Node -> SeqNo]
    /\ pending \in [Node -> AreqFrame \cup {None}]
    /\ ackEvt \in [Node -> BOOLEAN]
    /\ amc \in [Node -> Amc]

TypeTx ==
    /\ ctrlQ \in [Node -> Seq(AckFrame)]
    /\ videoQ \in [Node -> 0..VideoCap]
    /\ dataQ \in [Node -> Seq(AreqFrame)]
    /\ \A n \in Node : Len(ctrlQ[n]) <= ControlCap /\ Len(dataQ[n]) <= DataCap
    /\ txPos \in [Node -> {"control", "video", "data"}]
    /\ txAlive \in [Node -> BOOLEAN]

TypeRx ==
    /\ inbox \in [Node -> Seq(Frame)]
    /\ rxPc \in [Node -> {"idle", "deliver", "set"}]
    /\ rxMsg \in [Node -> Msg \cup {None}]
    /\ \A n \in Node : rxPc[n] = "deliver" => rxMsg[n] # None

TypeHist ==
    /\ owner \in [Node -> [SeqNo -> Msg \cup {None}]]
    /\ accepted \subseteq Msg
    /\ acked \subseteq Msg
    /\ heard \in [Node -> SUBSET (Msg \X (0..MaxRetries))]
    /\ ackedInTime \subseteq Msg
    /\ delivered \in [Node -> Seq(Msg)]
    /\ wakeups \in [Node -> Nat]
    /\ videoSent \in [Node -> Nat]
    /\ \A n \in Node : videoSent[n] <= VideoLimit[n]
    /\ foreignSent \in 0..ForeignLimit

\* Every variable holds a value of its kind: only ACKs are in the control
\* queue, only requests in the data queue, no queue exceeds its size, and
\* a thread that is about to use a frame or a payload has one.
TypeOK == TypeCaller /\ TypeMac /\ TypeTx /\ TypeRx /\ TypeHist

\* When the receive thread matches an ACK with _pending, the call whose frame
\* is pending was accepted by another node: late ACKs of earlier calls,
\* ACKs of retransmissions and ACKs from several receivers of a broadcast
\* never match the frame of another call, although only the number is
\* compared.
AckTruthful == acked \subseteq accepted

Oks(n) == {m \in Msg : NodeOf[m[1]] = n /\ result[m] = "ok"}

\* With one caller on a node, no matched ACK (or NACK) lets more than one
\* call return True, however late _ack_evt.set() runs: the clear() of every
\* attempt takes back a flag left over.
SuccessBudget == \A n \in Node :
    Cardinality(CallersOf(n)) = 1 => Cardinality(Oks(n)) <= wakeups[n]

Copies(n, m) == Cardinality({i \in DOMAIN delivered[n] : delivered[n][i] = m})

\* There is no duplicate filter, but the retry loop bounds the duplicates:
\* a node hands the payload of a call to its application max_retries times
\* at most.
DeliveryBound == \A n \in Node, m \in Msg : Copies(n, m) <= MaxRetries

\* Retransmissions of an earlier call that are still queued when the next
\* one starts never overtake it: a receiver sees the calls of a sender in
\* the order they were made.
InOrder == \A n \in Node : \A i, j \in DOMAIN delivered[n] :
    i < j /\ delivered[n][i][1] = delivered[n][j][1]
        => delivered[n][i][2] <= delivered[n][j][2]

Service == INSTANCE ArqService

\* The receivers of a node's calls see the service of ArqService: copies of
\* calls that were made, in order, MaxRetries at most, whatever is lost and
\* however the threads of _handle_rx, _tx_worker and send_reliable interleave.
ImplementsService == Service!Spec

\* A call that returned True was accepted by some node: "Blocks until ACK
\* received or max retries exceeded" (mac_simple.py:380).
SuccessMeansAccepted == \A m \in Msg : result[m] = "ok" => m \in accepted

\* A call whose ACK was matched and reported, set() included, within one and
\* the same attempt, after this had armed _pending and before its wait timed
\* out, does not return False (the same sentence of mac_simple.py:380).  A
\* set() that comes after the timeout does not count.
NoLostAck == \A m \in ackedInTime : result[m] # "failed"

\* Every call of send_reliable returns, as long as every thread is scheduled
\* and the video and control traffic is finite.
CallReturns == \A c \in Caller : pc[c] # "idle" ~> pc[c] = "idle"

=============================================================================
