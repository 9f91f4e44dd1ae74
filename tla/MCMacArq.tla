----------------------------- MODULE MCMacArq -----------------------------
(***************************************************************************)
(* Instances of MacArq for TLC.  Caller p runs on node a; caller q runs on *)
(* node b (a pair of nodes) or on node a as well (shared).                 *)
(***************************************************************************)
EXTENDS MacArq, TLC

CONSTANTS a, b, d,      \* nodes
          p, q          \* callers

\* p on a sends to b, q on b sends to a.
PairNodeOf == [c \in Caller |-> IF c = p THEN a ELSE b]
PairDest == [c \in Caller |-> IF c = p THEN b ELSE a]

\* p and q are two threads of node a.
SharedNodeOf == [c \in Caller |-> a]
BcastDest == [c \in Caller |-> Bcast]
ToB == [c \in Caller |-> b]

\* Every node hears every other node.
AllHear == [n \in Node |-> Node \ {n}]

\* b and d hear a only: two receivers at the ends of a line.
Line == [n \in Node |-> IF n = a THEN Node \ {a} ELSE {a}]

\* The two ends are interchangeable.
Ends == Permutations({b, d})

AllOk == [c \in Caller |-> "ok"]
\* p sends what fits, q what only the MAC length field can hold.
QPhy == [c \in Caller |-> IF c = p THEN "ok" ELSE "phy"]

\* Node a sends one datagram, or no node does.
OneVideo == [n \in Node |-> IF n = a THEN 1 ELSE 0]
NoVideo == [n \in Node |-> 0]
=============================================================================
