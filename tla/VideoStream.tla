----------------------------- MODULE VideoStream -----------------------------
(***************************************************************************)
(* The video packets from VideoTX._fragment_and_send to VideoRX.on_rx      *)
(* (phy/video_pipe.py).  Each packet is one MAC datagram: the queues and   *)
(* the radio may lose it, but keep the order.                              *)
(***************************************************************************)
EXTENDS Integers, Sequences, FiniteSets

CONSTANTS
    Stream,       \* threads that send: of a GStreamer pipeline, of the UDP port
    SeqMod,       \* 2^16
    StaleWindow,  \* 32
    PacketLimit   \* bound: packets sent

ASSUME VideoStreamAssumption ==
    /\ SeqMod \in Nat \ {0} /\ StaleWindow \in Nat /\ StaleWindow < SeqMod - 1
    /\ PacketLimit \in Nat

SeqNum == 0..(SeqMod - 1)
Number == 1..PacketLimit    \* packets in the order they are packed
Packet == [seq : SeqNum, no : Number]

VARIABLES
    txSeq,    \* VideoTX._seq
    packed,   \* the packet a thread has packed and not yet sent, or none
    count,    \* packets packed
    wire,     \* on the way
    nextSeq,  \* VideoRX._next_seq
    held,     \* VideoRX._buf
    played    \* history: packets handed to _output

streamVars == <<txSeq, packed, count, wire, nextSeq, held, played>>

StreamInit ==
    /\ txSeq = 0 /\ count = 0 /\ wire = <<>>
    /\ packed = [t \in Stream |-> <<>>]
    /\ nextSeq = 0 /\ held = [s \in {} |-> 0] /\ played = <<>>

-----------------------------------------------------------------------------
\* rtp_pack(chunk, self._seq, ts)
Pack(t) ==
    /\ packed[t] = <<>> /\ count < PacketLimit
    /\ count' = count + 1
    /\ packed' = [packed EXCEPT ![t] = <<[seq |-> txSeq, no |-> count + 1]>>]
    /\ UNCHANGED <<txSeq, wire, nextSeq, held, played>>

\* Fault: the number outgrows its field.
SendUnwrapped(t) ==
    /\ packed[t] # <<>>
    /\ txSeq' = txSeq + 1
    /\ wire' \in {wire, wire \o packed[t]}
    /\ packed' = [packed EXCEPT ![t] = <<>>]
    /\ UNCHANGED <<count, nextSeq, held, played>>

\* The number is advanced, the packet sent or dropped.
SendPacket(t) ==
    /\ packed[t] # <<>>
    /\ txSeq' = (txSeq + 1) % SeqMod
    /\ wire' \in {wire, wire \o packed[t]}
    /\ packed' = [packed EXCEPT ![t] = <<>>]
    /\ UNCHANGED <<count, nextSeq, held, played>>

-----------------------------------------------------------------------------
(* on_rx                                                                   *)

Arrived == [s \in DOMAIN held \cup {Head(wire).seq} |->
               IF s = Head(wire).seq THEN Head(wire).no ELSE held[s]]

\* How many packets in a row are there from the expected one on.
Run(buf) == CHOOSE k \in 0..SeqMod :
    /\ \A j \in 0..(k - 1) : (nextSeq + j) % SeqMod \in DOMAIN buf
    /\ k = SeqMod \/ (nextSeq + k) % SeqMod \notin DOMAIN buf

\* Fault: nothing is stale.
NeverStale(next, s) == FALSE

\* Distance counted back from the expected number: a packet ahead of it is
\* as stale as an old one.
Stale(next, s) == (next - s) % SeqMod > StaleWindow

OnRx ==
    /\ wire # <<>>
    /\ LET k == Run(Arrived)
           next == (nextSeq + k) % SeqMod
           popped == {(nextSeq + j) % SeqMod : j \in 0..(k - 1)}
       IN /\ played' = played \o
                 [j \in 1..k |-> Arrived[(nextSeq + j - 1) % SeqMod]]
          /\ nextSeq' = next
          /\ held' = [s \in {s \in DOMAIN Arrived \ popped : ~Stale(next, s)}
                         |-> Arrived[s]]
    /\ wire' = Tail(wire)
    /\ UNCHANGED <<txSeq, packed, count>>

-----------------------------------------------------------------------------
StreamNext == OnRx \/ \E t \in Stream : Pack(t) \/ SendPacket(t)

StreamSpec == StreamInit /\ [][StreamNext]_streamVars

-----------------------------------------------------------------------------
(* Properties                                                              *)

StreamTypeOK ==
    /\ txSeq \in SeqNum /\ nextSeq \in SeqNum
    /\ count \in 0..PacketLimit
    /\ packed \in [Stream -> {<<>>} \cup {<<p>> : p \in Packet}]
    /\ wire \in Seq(Packet)
    /\ held \in UNION {[S -> Number] : S \in SUBSET SeqNum}
    /\ played \in Seq(Number)

\* One sender: no packet is played twice, late or under the number of another:
\* what the buffer keeps across a turn of the numbers never comes out.  (With
\* two senders a packet may be sent a whole turn after it was packed.)
PlayedInOrder == \A i \in 1..(Len(played) - 1) : played[i] < played[i + 1]

\* The stale filter bounds the buffer: whatever is lost, whenever the numbers
\* come round and whoever sends, no more packets wait than its window.
HeldBounded == Cardinality(DOMAIN held) <= StaleWindow

\* "Receives RTP packets from the MAC layer, reassembles NAL units, and feeds
\* them to GStreamer or forwards via UDP." (video_pipe.py:312-313): a packet
\* received is put out or kept for later.  (One sender: it cannot be late.)
NothingDiscarded == [][wire # <<>> /\ wire' = Tail(wire) =>
    \/ \E i \in DOMAIN played' : played'[i] = Head(wire).no
    \/ \E s \in DOMAIN held' : held'[s] = Head(wire).no]_streamVars
=============================================================================
