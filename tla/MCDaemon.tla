------------------------------ MODULE MCDaemon ------------------------------
(* An instance of Daemon alone for TLC.                                    *)
EXTENDS Daemon

\* node_id is set to the LoRa id: both planes of a peer meet in one entry.
MCLoraId == [n \in Node \ {Me} |-> n]
=============================================================================
