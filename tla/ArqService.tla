---------------------------- MODULE ArqService ----------------------------
(***************************************************************************)
(* What a user of send_reliable may expect of the receivers: a payload     *)
(* that is handed over belongs to a call that was made, the calls of a     *)
(* caller come in order, and a receiver gets at most MaxRetries copies of  *)
(* one.  Nothing is promised about loss, nor by what a call returns.       *)
(***************************************************************************)
EXTENDS Naturals, Sequences, FiniteSets

CONSTANTS Node, Caller, CallLimit, MaxRetries

VARIABLES calls, delivered

Msg == Caller \X (1..CallLimit)

Init ==
    /\ calls = [c \in Caller |-> 0]
    /\ delivered = [n \in Node |-> <<>>]

Make(c) ==
    /\ calls[c] < CallLimit
    /\ calls' = [calls EXCEPT ![c] = @ + 1]
    /\ UNCHANGED delivered

Deliver(n, m) ==
    /\ m[2] <= calls[m[1]]
    /\ \A i \in DOMAIN delivered[n] :
          delivered[n][i][1] = m[1] => delivered[n][i][2] <= m[2]
    /\ Cardinality({i \in DOMAIN delivered[n] : delivered[n][i] = m}) < MaxRetries
    /\ delivered' = [delivered EXCEPT ![n] = Append(@, m)]
    /\ UNCHANGED calls

Next ==
    \/ \E c \in Caller : Make(c)
    \/ \E n \in Node, m \in Msg : Deliver(n, m)

Spec == Init /\ [][Next]_<<calls, delivered>>
=============================================================================
