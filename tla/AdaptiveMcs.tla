---------------------------- MODULE AdaptiveMcs ----------------------------
(***************************************************************************)
(* The adaptive modulation controller of phy/mac_simple.py: one record per *)
(* node holding the coding scheme in use and the runs of successes and     *)
(* failures since the last change.  ack() and nack() are pure functions of *)
(* that record, called by the application thread that ends a reliable call *)
(* and by the receive thread that handles a NACK.                          *)
(***************************************************************************)
EXTENDS Naturals

CONSTANTS
    TopMcs,     \* fastest scheme, MCS6 in the code
    UpThresh,   \* successes in a row before the rate goes up, 10
    DnThresh    \* failures in a row before the rate goes down, 2

ASSUME AmcAssumption ==
    /\ TopMcs \in Nat
    /\ UpThresh \in Nat \ {0}
    /\ DnThresh \in Nat \ {0}

Mcs == 0..TopMcs

Amc == [mcs : Mcs, ok : Nat, fail : Nat]

AmcStart(m) == [mcs |-> m, ok |-> 0, fail |-> 0]

\* ack(): the success counter is reset by a step up only, so at the top
\* rate it keeps growing.
AmcAck(a) ==
    IF a.ok + 1 >= UpThresh /\ a.mcs < TopMcs
    THEN AmcStart(a.mcs + 1)
    ELSE [mcs |-> a.mcs, ok |-> a.ok + 1, fail |-> 0]

AmcNack(a) ==
    IF a.fail + 1 >= DnThresh /\ a.mcs > 0
    THEN AmcStart(a.mcs - 1)
    ELSE [mcs |-> a.mcs, ok |-> 0, fail |-> a.fail + 1]

=============================================================================
