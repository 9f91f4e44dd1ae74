-------------------------- MODULE DatagramService --------------------------
(***************************************************************************)
(* What a user of send_datagram may expect of one receiver: a message      *)
(* arrives whole or not at all, once at most, and the messages of a thread *)
(* in the order in which they were sent.  Nothing is promised about loss.  *)
(* Only where messages have shared a number may a payload arrive that is   *)
(* none of them (None).                                                    *)
(***************************************************************************)
EXTENDS Naturals, Sequences

CONSTANTS Thread, MsgLimit, None

VARIABLES sent, shared, delivered

Msg == Thread \X (1..MsgLimit)

Begun == {m \in Msg : m[2] <= sent[m[1]]}

Init == sent = [t \in Thread |-> 0] /\ shared = {} /\ delivered = <<>>

Send(t) ==
    /\ sent[t] < MsgLimit
    /\ sent' = [sent EXCEPT ![t] = @ + 1]
    /\ shared \subseteq shared' /\ shared' \subseteq Begun'
    /\ UNCHANGED delivered

Deliver(m) ==
    /\ m \in Begun
    /\ \A i \in DOMAIN delivered :
          delivered[i] # None /\ delivered[i][1] = m[1] => delivered[i][2] < m[2]
    /\ delivered' = Append(delivered, m)
    /\ UNCHANGED <<sent, shared>>

Garble ==
    /\ shared # {}
    /\ delivered' = Append(delivered, None)
    /\ UNCHANGED <<sent, shared>>

Next == (\E t \in Thread : Send(t)) \/ (\E m \in Msg : Deliver(m)) \/ Garble

Spec == Init /\ [][Next]_<<sent, shared, delivered>>
=============================================================================
