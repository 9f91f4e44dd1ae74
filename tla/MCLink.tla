------------------------------- MODULE MCLink -------------------------------
(***************************************************************************)
(* Datagrams and the OFDM receiver in one run: they share no state, so     *)
(* either moves while the other stands still.  Datagrams come from one     *)
(* node, long enough for losses in the middle and for the number to come   *)
(* round, or from two nodes that count alike.                              *)
(***************************************************************************)
EXTENDS MCDatagram, MCPhyRx

VARIABLE part    \* the part that moves

LinkInit ==
    /\ Init /\ PhyInit
    /\ part \in {"one sender", "two senders", "phy"}
    /\ part # "phy" => sim

\* One sender uses all of the constants, two send shorter messages, two and one.
Bounded ==
    /\ part = "one sender" => pc[u] = "idle"
    /\ part = "two senders" =>
          /\ sent[t] <= 2 /\ sent[u] <= 1
          /\ \A m \in Msg : size[m] <= 2

LinkNext ==
    \/ part # "phy" /\ UNCHANGED <<part, phyVars>> /\ Next /\ Bounded'
    \/ part = "phy" /\ PhyNext /\ UNCHANGED <<part, vars>>

linkVars == <<part, phyVars, vars>>

\* push is a loop of the receive thread: it goes on while it has not broken.
LinkSpec ==
    /\ LinkInit /\ [][LinkNext]_linkVars
    /\ WF_linkVars(part = "phy" /\ Receive /\ UNCHANGED <<part, vars>>)
=============================================================================
