------------------------------- MODULE MCNode -------------------------------
(***************************************************************************)
(* The parts of a node around its MAC layer, checked in one run: TX queue, *)
(* daemon, video sender, video stream, front end and key store share no    *)
(* state, so a behaviour of each is checked while the others stand still.  *)
(***************************************************************************)
EXTENDS MCTxQueue, MCDaemon, VideoTx, VideoStream, FrontEnd, KeyStore

VARIABLE part    \* the part that moves

Part == {"queue", "daemon", "videotx", "stream", "front", "keys"}

MCProfile == [m \in VideoMcs |-> 150 * m]
MCContact == [n \in Owner |-> Owner \ {n}]
MCGroup == [n \in Owner |-> 0]

\* A part that stands still needs one initial state.
Init ==
    /\ QueueInit /\ DaemonInit /\ VideoTxInit /\ StreamInit
    /\ FrontInit /\ KeyInit
    /\ part \in Part
    /\ part # "videotx" => linkMcs = 0
    /\ part # "front" => tuned = 863

\* The parts that stand still while one moves.
NotQueue == <<part, daemonVars, videoTxVars, streamVars, frontVars, keyVars>>
NotDaemon == <<part, queueVars, videoTxVars, streamVars, frontVars, keyVars>>
NotVideoTx == <<part, queueVars, daemonVars, streamVars, frontVars, keyVars>>
NotStream == <<part, queueVars, daemonVars, videoTxVars, frontVars, keyVars>>
NotFront == <<part, queueVars, daemonVars, videoTxVars, streamVars, keyVars>>
NotKeys == <<part, queueVars, daemonVars, videoTxVars, streamVars, frontVars>>

Next ==
    \/ part = "queue" /\ QueueNext /\ UNCHANGED NotQueue
    \/ part = "daemon" /\ DaemonNext /\ UNCHANGED NotDaemon
    \/ part = "videotx" /\ VideoTxNext /\ UNCHANGED NotVideoTx
    \/ part = "stream" /\ StreamNext /\ UNCHANGED NotStream
    \/ part = "front" /\ FrontNext /\ UNCHANGED NotFront
    \/ part = "keys" /\ KeyNext /\ UNCHANGED NotKeys

vars == <<queueVars, NotQueue>>

\* The TX worker keeps running and its 5 ms waits end; the cleanup thread
\* and the bitrate threads run on.
Fairness ==
    /\ WF_vars(part = "queue" /\ GetStep /\ UNCHANGED NotQueue)
    /\ WF_vars(part = "daemon" /\ Launch(Me) /\ UNCHANGED NotDaemon)
    /\ WF_vars(part = "daemon" /\ Cleanup /\ UNCHANGED NotDaemon)
    /\ \A p \in Pipeline :
          WF_vars(part = "videotx" /\ Abr(p) /\ UNCHANGED NotVideoTx)

Spec == Init /\ [][Next]_vars /\ Fairness
=============================================================================
