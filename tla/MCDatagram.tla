----------------------------- MODULE MCDatagram -----------------------------
(* Datagram for TLC: one sending thread, or one thread on each of two nodes. *)
EXTENDS Datagram

CONSTANTS a, b, t, u

MCNodeOf == [x \in Thread |-> IF x = t THEN a ELSE b]
=============================================================================
