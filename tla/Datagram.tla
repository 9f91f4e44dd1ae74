------------------------------ MODULE Datagram ------------------------------
(***************************************************************************)
(* Datagrams between LionMesh nodes: fragment() and send_datagram() on the *)
(* sending side, ReassemblyBuffer on the receiving side (all of            *)
(* phy/mac_simple.py), with a radio in between that loses frames but keeps *)
(* the order of each sender.                                               *)
(*                                                                         *)
(* The threads of a node share _frag_id without a lock: the number is read *)
(* when fragment() is called and advanced after it has returned.  One      *)
(* receiver is modelled; receivers do not influence each other.  A payload *)
(* is the sequence of the messages its pieces were cut from.               *)
(*                                                                         *)
(* Nothing keeps a number from being given out again while pieces with it  *)
(* are under way or held.  The history variable shared remembers the       *)
(* messages this has happened to; what the properties promise of the       *)
(* others holds for any nodes and threads.                                 *)
(***************************************************************************)
EXTENDS Integers, Sequences, FiniteSets, Functions

CONSTANTS
    Node,           \* sending nodes
    Thread,         \* threads that call send_datagram
    NodeOf,         \* the node a thread runs on
    MaxFrags,       \* MAX_FRAGS, 255 in the code
    IdMod,          \* frag_id is modulo this, 2^16 in the code
    VideoCap,       \* maxsize_video
    MaxAge,         \* max_age_s, in ticks
    MsgLimit,       \* bound: messages per thread
    None            \* Python's None, a key that is not in a dict

Msg == Thread \X (1..MsgLimit)
FragId == 0..(IdMod - 1)
Index == 0..(MaxFrags - 1)

ASSUME DatagramAssumption ==
    /\ NodeOf \in [Thread -> Node]
    /\ MaxFrags \in Nat \ {0}
    /\ IdMod \in Nat \ {0}
    /\ VideoCap \in Nat
    /\ MaxAge \in Nat
    /\ MsgLimit \in Nat
    /\ None \notin Msg

\* A DATA frame: the fragment header and the message the piece was cut from.
Fragment == [id : FragId, idx : Index, total : 1..MaxFrags, msg : Msg]

\* A value of _pending.  Ages above max_age_s are all the same.
Entry == [total : 1..MaxFrags, frags : [Index -> Msg \cup {None}],
          age : 0..(MaxAge + 1)]

ASSUME EntryAssumption == None \notin Entry

VARIABLES
    fragId,     \* _frag_id, per node
    pc,         \* the next statement of send_datagram, per thread
    sent,       \* number of messages begun, per thread
    number,     \* the frag_id a message was cut with
    next,       \* index of the fragment to enqueue next
    videoQ,     \* PRIO_VIDEO queue, per node
    air,        \* fragments sent by a node and not yet handled by the receiver
    buffer,     \* _pending of the receiver's ReassemblyBuffer
    rxAlive,    \* the receive thread has not died of an exception
    delivered,  \* payloads handed to on_rx
    size,       \* number of fragments of a message
    shared,     \* history: messages that had their number together with another
    early       \* history: ... while more than an expired entry was left of one

history == <<shared, early>>
sendVars == <<pc, sent, number, next, size, history>>
rxVars == <<buffer, rxAlive, delivered>>
vars == <<fragId, sendVars, videoQ, air, rxVars>>

Init ==
    /\ fragId = [n \in Node |-> 0]
    /\ pc = [t \in Thread |-> "idle"]
    /\ sent = [t \in Thread |-> 0]
    /\ number = [m \in Msg |-> 0]
    /\ next = [t \in Thread |-> 0]
    /\ videoQ = [n \in Node |-> <<>>]
    /\ air = [n \in Node |-> <<>>]
    /\ buffer = [i \in FragId |-> None]
    /\ rxAlive = TRUE
    /\ delivered = <<>>
    /\ size = [m \in Msg |-> 0]
    /\ shared = {}
    /\ early = {}

-----------------------------------------------------------------------------
(* send_datagram                                                           *)

Current(t) == <<t, sent[t]>>

\* Some piece of m is still to be sent or on its way ...
Moving(m) ==
    \/ pc[m[1]] # "idle" /\ Current(m[1]) = m
    \/ \E n \in Node : \E f \in Range(videoQ[n]) \cup Range(air[n]) : f.msg = m

\* ... or held by the receiver.
UnderWay(m) ==
    \/ Moving(m)
    \/ \E i \in FragId : buffer[i] # None /\ \E x \in Index : buffer[i].frags[x] = m

\* How messages come by one number: from two threads, whose nodes count alike
\* or who share a counter without a lock; or the counter has come round.
Rival(m, w) ==
    \/ w[1] # m[1]
    \/ \E u \in Thread \ {m[1]} : NodeOf[u] = NodeOf[m[1]]
    \/ m[2] - w[2] >= IdMod

\* The messages that m, about to be given number i, will share it with.
Rivals(m, i) == {w \in Msg : UnderWay(w) /\ number[w] = i /\ Rival(m, w)}

Noted(S, m, rivals) == IF rivals = {} THEN S ELSE S \cup rivals \cup {m}

Expired(i) == buffer[i] # None /\ buffer[i].age > MaxAge

\* frags = fragment(payload, self._frag_id); an empty payload has none.
\* (A payload of more than MAX_FRAGS fragments raises and changes nothing.)
Begin(t) ==
    LET i == fragId[NodeOf[t]]
        m == <<t, sent[t] + 1>>
    IN  /\ pc[t] = "idle" /\ sent[t] < MsgLimit
        /\ \E k \in 0..MaxFrags : size' = [size EXCEPT ![m] = k]
        /\ sent' = [sent EXCEPT ![t] = @ + 1]
        /\ number' = [number EXCEPT ![m] = i]
        /\ shared' = Noted(shared, m, Rivals(m, i))
        /\ early' = Noted(early, m, {w \in Rivals(m, i) : Moving(w) \/ ~Expired(i)})
        /\ next' = [next EXCEPT ![t] = 0]
        /\ pc' = [pc EXCEPT ![t] = "advance"]
        /\ UNCHANGED <<fragId, videoQ, air, rxVars>>

\* What is left of the for loop over the fragments.
AfterFragment(t, k) == IF k < size[Current(t)] THEN "put" ELSE "idle"

\* Fault: the number is not advanced.
AdvanceIdNever(t) ==
    /\ pc[t] = "advance"
    /\ pc' = [pc EXCEPT ![t] = AfterFragment(t, 0)]
    /\ UNCHANGED <<fragId, sent, number, next, size, history, videoQ, air, rxVars>>

\* self._frag_id = (self._frag_id + 1) & 0xFFFF
AdvanceId(t) ==
    /\ pc[t] = "advance"
    /\ fragId' = [fragId EXCEPT ![NodeOf[t]] = (@ + 1) % IdMod]
    /\ pc' = [pc EXCEPT ![t] = AfterFragment(t, 0)]
    /\ UNCHANGED <<sent, number, next, size, history, videoQ, air, rxVars>>

Piece(t) == [id |-> number[Current(t)], idx |-> next[t], total |-> size[Current(t)],
             msg |-> Current(t)]

\* Fault: the queue has no limit.
PutFragmentUnbounded(t) ==
    /\ pc[t] = "put"
    /\ videoQ' = [videoQ EXCEPT ![NodeOf[t]] = Append(@, Piece(t))]
    /\ next' = [next EXCEPT ![t] = @ + 1]
    /\ pc' = [pc EXCEPT ![t] = AfterFragment(t, next[t] + 1)]
    /\ UNCHANGED <<fragId, sent, number, size, history, air, rxVars>>

\* One turn of the loop; the fragment is dropped when the queue is full.
PutFragment(t) ==
    LET n == NodeOf[t]
    IN  /\ pc[t] = "put"
        /\ videoQ' = [videoQ EXCEPT ![n] =
                         IF Len(@) < VideoCap THEN Append(@, Piece(t)) ELSE @]
        /\ next' = [next EXCEPT ![t] = @ + 1]
        /\ pc' = [pc EXCEPT ![t] = AfterFragment(t, next[t] + 1)]
        /\ UNCHANGED <<fragId, sent, number, size, history, air, rxVars>>

\* The TX worker sends the frame; the receiver decodes it ...
Transmit(n) ==
    /\ videoQ[n] # <<>>
    /\ videoQ' = [videoQ EXCEPT ![n] = Tail(@)]
    /\ air' = [air EXCEPT ![n] = Append(@, Head(videoQ[n]))]
    /\ UNCHANGED <<fragId, sendVars, rxVars>>

\* ... or the radio loses it, or its checksum is wrong.
Lose(n) ==
    /\ videoQ[n] # <<>>
    /\ videoQ' = [videoQ EXCEPT ![n] = Tail(@)]
    /\ UNCHANGED <<fragId, sendVars, air, rxVars>>

-----------------------------------------------------------------------------
(* ReassemblyBuffer.add                                                    *)

Arrives(n) ==
    /\ rxAlive /\ air[n] # <<>>
    /\ air' = [air EXCEPT ![n] = Tail(@)]

\* Fault: the last fragment is taken for a message of its own.
IsLast(f) == f.idx + 1 = f.total

IsWhole(f) == f.total = 1

\* A message of one fragment does not touch the buffer.
RxSingle(n) ==
    LET f == Head(air[n])
    IN  /\ Arrives(n) /\ IsWhole(f)
        /\ delivered' = Append(delivered, <<f.msg>>)
        /\ UNCHANGED <<fragId, sendVars, videoQ, buffer, rxAlive>>

\* The fragment joins the entry of its id, however old; the entry keeps the
\* total of its first fragment and is as good as new.
Stored(f) ==
    LET old == IF buffer[f.id] = None
               THEN [total |-> f.total, frags |-> [x \in Index |-> None], age |-> 0]
               ELSE buffer[f.id]
    IN  [old EXCEPT !.frags[f.idx] = f.msg, !.age = 0]

\* _expire(), called after the fragment is stored.
Fresh(i) == IF Expired(i) THEN None ELSE buffer[i]

Have(e) == {x \in Index : e.frags[x] # None}

\* Fault: one fragment may be missing.
IsNearlyComplete(e) == Cardinality(Have(e)) + 1 >= e.total

IsComplete(e) == Cardinality(Have(e)) = e.total

\* The join reads fragments 0 to total - 1: KeyError if one is missing.
Joinable(e) == 0..(e.total - 1) \subseteq Have(e)

Joined(e) == [k \in 1..e.total |-> e.frags[k - 1]]

RxFragment(n) ==
    LET f == Head(air[n])
        e == Stored(f)
        others == [i \in FragId |-> IF i = f.id THEN e ELSE Fresh(i)]
    IN  /\ Arrives(n) /\ ~IsWhole(f)
        /\ IF IsComplete(e) /\ Joinable(e)
           THEN /\ buffer' = [others EXCEPT ![f.id] = None]
                /\ delivered' = Append(delivered, Joined(e))
           ELSE buffer' = others /\ UNCHANGED delivered
        /\ rxAlive' = (IsComplete(e) => Joinable(e))
        /\ UNCHANGED <<fragId, sendVars, videoQ>>

Tick ==
    /\ buffer' = [i \in FragId |->
            IF buffer[i] # None /\ buffer[i].age <= MaxAge
            THEN [buffer[i] EXCEPT !.age = @ + 1] ELSE buffer[i]]
    /\ UNCHANGED <<fragId, sendVars, videoQ, air, rxAlive, delivered>>

-----------------------------------------------------------------------------
Next == \/ \E t \in Thread : Begin(t) \/ AdvanceId(t) \/ PutFragment(t)
        \/ \E n \in Node : Transmit(n) \/ Lose(n) \/ RxSingle(n) \/ RxFragment(n)
        \/ Tick

Spec == Init /\ [][Next]_vars

-----------------------------------------------------------------------------
(* Properties                                                              *)

\* Every variable holds a value of its kind; the queue keeps to its size.
TypeOK ==
    /\ fragId \in [Node -> FragId]
    /\ pc \in [Thread -> {"idle", "advance", "put"}]
    /\ sent \in [Thread -> 0..MsgLimit]
    /\ number \in [Msg -> FragId]
    /\ next \in [Thread -> 0..MaxFrags]
    /\ videoQ \in [Node -> Seq(Fragment)]
    /\ \A n \in Node : Len(videoQ[n]) <= VideoCap
    /\ air \in [Node -> Seq(Fragment)]
    /\ buffer \in [FragId -> Entry \cup {None}]
    /\ rxAlive \in BOOLEAN
    /\ delivered \in Seq(Seq(Msg))
    /\ size \in [Msg -> 0..MaxFrags]
    /\ early \subseteq shared /\ shared \subseteq Msg

\* p is all of message m, in order.
IsMessage(p, m) == Len(p) = size[m] /\ \A k \in DOMAIN p : p[k] = m

\* A payload handed to the application is one message as it was sent, never
\* pieces of several: "frag_id: unique ID per original message"
\* (mac_simple.py:131).
Intact == \A i \in DOMAIN delivered : \E m \in Msg : IsMessage(delivered[i], m)

\* A payload that is not one message as it was sent has a piece of a message
\* that shared its number: losses, drops, expiry and a counter that comes
\* round can do no other harm.
IntactUnlessShared == \A i \in DOMAIN delivered :
    \/ \E m \in Msg : IsMessage(delivered[i], m)
    \/ \E k \in DOMAIN delivered[i] : delivered[i][k] \in shared

\* add() returns the message or None: the join (mac_simple.py:200) never misses
\* a fragment, so that the receive thread, which does not catch exceptions,
\* lives: "Returns the complete reassembled message if all fragments arrived,
\* or None if still waiting for more" (mac_simple.py:171).
ReceiverLives == rxAlive

\* Unless some messages shared a number the join never misses a fragment.
LivesUnlessShared == rxAlive \/ shared # {}

\* "Incomplete messages are held for max_age_s seconds, then discarded."
\* (mac_simple.py:162): so a payload can be garbled only by a message that was
\* given its number while another with it was moving or held for that time.
StaleDiscarded == \A i \in DOMAIN delivered :
    \/ \E m \in Msg : IsMessage(delivered[i], m)
    \/ \E k \in DOMAIN delivered[i] : delivered[i][k] \in early

\* Fragmentation and reassembly implement the service: a message comes whole,
\* once and in the order of its thread, whatever is lost, dropped or expired;
\* anything else that is handed over has pieces of messages that shared a number.
Whole(p) == IF \E m \in Msg : IsMessage(p, m)
            THEN CHOOSE m \in Msg : IsMessage(p, m) ELSE None

Service == INSTANCE DatagramService
    WITH delivered <- [i \in DOMAIN delivered |-> Whole(delivered[i])]

ImplementsService == Service!Spec

=============================================================================
