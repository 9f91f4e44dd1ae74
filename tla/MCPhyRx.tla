------------------------------ MODULE MCPhyRx ------------------------------
(* Values for TLC: see the README for the bounds.                          *)
EXTENDS PhyRx

\* Every scheme, with payloads of 0, 20 and 101 bytes.
MCLoopPayloads == [mcs : Mcs, len : {0, 20, 101}]

\* A frame of 400 + 3*80 + 80 samples.
MCAirPayloads == {[mcs |-> 1, len |-> 12]}
MCGaps == {0, 1500}
MCQuiet == {}
MCNoise == {40}
=============================================================================
