----------------------------- MODULE MCTxQueue -----------------------------
(***************************************************************************)
(* TxQueue for TLC: the receive thread, a video sender and a thread in     *)
(* send_reliable, with queues of one or two places.                        *)
(***************************************************************************)
EXTENDS TxQueue

CONSTANTS rx, cam, app

MCClassOf == [p \in Producer |->
    CASE p = rx -> "control" [] p = cam -> "video" [] OTHER -> "data"]

MCCap == [k \in Class |-> IF k = "control" THEN 2 ELSE 1]
=============================================================================
