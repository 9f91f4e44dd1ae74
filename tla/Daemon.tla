------------------------------- MODULE Daemon -------------------------------
(***************************************************************************)
(* The node daemons of daemon/main.py with their radio managers            *)
(* (daemon/radio.py): start-up with the fallback from lionmesh to wifi     *)
(* mode, the heartbeat, GPS and cleanup threads, the receive callbacks of  *)
(* both planes, stop and restart.  Of the registries one is modelled, that *)
(* of node Me: nodes do not see each other's.                              *)
(***************************************************************************)
EXTENDS Registry

CONSTANTS
    Node,    \* nodes, each with its node_id
    Me,      \* the node whose registry is modelled
    LoraId   \* the fromId under which the LoRa radio of a peer is heard

ASSUME DaemonAssumption ==
    /\ Me \in Node /\ Node \subseteq Id
    /\ LoraId \in [Node \ {Me} -> Id]

\* [radio] mode in node.conf.  Anything but lionmesh starts the UDP socket;
\* only "wifi" sends on it.
ConfMode == {"wifi", "lionmesh", "other"}

\* radio.send: no branch takes any other mode.
SendMode == {"wifi", "lionmesh"}

Heartbeat == [from : Node, via : SendMode]

VARIABLES
    phase,      \* main() of a node: "off", "radio" (started), "running"
    mode,       \* RadioManager._mode, "none" while the process is off
    beat,       \* the heartbeat thread: "none", "alive" or "dead"
    air,        \* heartbeats on their way to Me
    nodes,      \* NodeRegistry._nodes of Me
    sweeping,   \* Me's cleanup thread is between time.time() and the lock
    lag,        \* ticks since it read the clock
    ranAge     \* history: ticks since a node last ran in a mode that sends

daemonVars == <<phase, mode, beat, air, nodes, sweeping, lag, ranAge>>

DaemonInit ==
    /\ phase = [d \in Node |-> "off"]
    /\ mode = [d \in Node |-> "none"]
    /\ beat = [d \in Node |-> "none"]
    /\ air = {}
    /\ nodes = Empty
    /\ sweeping = FALSE
    /\ lag = 0
    /\ ranAge = [d \in Node |-> Old]

-----------------------------------------------------------------------------
(* Start and stop.  An exception that leaves main (the UDP port is in use) *)
(* leaves the node off.                                                    *)

StartRadio(d, m) ==
    /\ phase[d] = "off"
    /\ phase' = [phase EXCEPT ![d] = "radio"]
    /\ mode' = [mode EXCEPT ![d] = m]
    /\ ranAge' = [ranAge EXCEPT ![d] = IF m \in SendMode THEN 0 ELSE @]
    /\ UNCHANGED <<beat, air, nodes, sweeping, lag>>

StartWifi(d, conf) == conf # "lionmesh" /\ StartRadio(d, conf)

StartLionmesh(d) == StartRadio(d, "lionmesh")

\* An import or the hardware fails.  A MAC layer made before that stays in
\* _mac, but send and status ask for the mode first, and no thread feeds it:
\* radio.start, which starts the radio's threads, was not passed.
Fallback(d) == StartRadio(d, "wifi")

\* main goes on: LoRa, video, the three threads, the API.
Launch(d) ==
    /\ phase[d] = "radio"
    /\ phase' = [phase EXCEPT ![d] = "running"]
    /\ beat' = [beat EXCEPT ![d] = "alive"]
    /\ UNCHANGED <<mode, air, nodes, sweeping, lag, ranAge>>

\* Fault: the heartbeat thread is no daemon thread and outlives main.
StopLeavesThread(d) ==
    /\ phase[d] # "off"
    /\ phase' = [phase EXCEPT ![d] = "off"]
    /\ UNCHANGED <<mode, beat, air, nodes, sweeping, lag, ranAge>>

\* A signal or a crash: the process ends and its daemon threads with it.
Stop(d) ==
    /\ phase[d] # "off"
    /\ phase' = [phase EXCEPT ![d] = "off"]
    /\ mode' = [mode EXCEPT ![d] = "none"]
    /\ beat' = [beat EXCEPT ![d] = "none"]
    /\ nodes' = IF d = Me THEN Empty ELSE nodes
    /\ sweeping' = (sweeping /\ d # Me)
    /\ lag' = IF d = Me THEN 0 ELSE lag
    /\ UNCHANGED <<air, ranAge>>

-----------------------------------------------------------------------------
(* Heartbeats                                                              *)

\* In lionmesh mode RadioManager.status reads st["tx_queue"], which
\* get_status does not have: KeyError.
StatusRaises(d) == mode[d] = "lionmesh"

Beat(d) ==
    /\ beat[d] = "alive" /\ ~StatusRaises(d) /\ mode[d] \in SendMode
    /\ air' = air \cup {[from |-> d, via |-> mode[d]]}
    /\ UNCHANGED <<phase, mode, beat, nodes, sweeping, lag, ranAge>>

\* status is read outside the try: the thread ends.
BeatDies(d) ==
    /\ beat[d] = "alive" /\ StatusRaises(d)
    /\ beat' = [beat EXCEPT ![d] = "dead"]
    /\ UNCHANGED <<phase, mode, air, nodes, sweeping, lag, ranAge>>

\* The UDP thread, or the radio's threads through _lionmesh_rx.
Listens(via) == phase[Me] # "off" /\ (via = "lionmesh") = (mode[Me] = "lionmesh")

\* on_data_rx; a node hears its own broadcast, too.
OnDataRx(h) ==
    /\ h \in air /\ Listens(h.via)
    /\ nodes' = UpdateFromDataPlane(nodes, h.from)
    /\ air' = air \ {h}
    /\ UNCHANGED <<phase, mode, beat, sweeping, lag, ranAge>>

LoseHeartbeat(h) ==
    /\ h \in air
    /\ air' = air \ {h}
    /\ UNCHANGED <<phase, mode, beat, nodes, sweeping, lag, ranAge>>

-----------------------------------------------------------------------------
(* LoRa, GPS, cleanup                                                      *)

\* on_lora_rx, for a packet with a position.
OnLoraRx(n) ==
    /\ phase[Me] # "off"
    /\ nodes' = UpdateFromLora(nodes, LoraId[n])
    /\ UNCHANGED <<phase, mode, beat, air, sweeping, lag, ranAge>>

\* A turn of gps_broadcast_loop with a position: the node's own entry.
GpsUpdate ==
    /\ phase[Me] = "running"
    /\ nodes' = UpdateFromLora(nodes, Me)
    /\ UNCHANGED <<phase, mode, beat, air, sweeping, lag, ranAge>>

CleanupReads ==
    /\ phase[Me] = "running" /\ ~sweeping
    /\ sweeping' = TRUE /\ lag' = 0
    /\ UNCHANGED <<phase, mode, beat, air, nodes, ranAge>>

CleanupSweeps ==
    /\ sweeping
    /\ nodes' = RemoveStale(nodes, lag)
    /\ sweeping' = FALSE /\ lag' = 0
    /\ UNCHANGED <<phase, mode, beat, air, ranAge>>

\* A heartbeat arrives or is lost, and the lock is had, within a tick or so.
DaemonTick ==
    /\ air = {}
    /\ sweeping => lag < MaxLag
    /\ nodes' = Aged(nodes)
    /\ lag' = IF sweeping THEN lag + 1 ELSE lag
    /\ ranAge' = [d \in Node |-> IF mode[d] \in SendMode THEN 0
                                     ELSE Older(ranAge[d])]
    /\ UNCHANGED <<phase, mode, beat, air, sweeping>>

-----------------------------------------------------------------------------
Cleanup == CleanupReads \/ CleanupSweeps

DaemonNext ==
    \/ \E d \in Node : \/ \E conf \in ConfMode : StartWifi(d, conf)
                       \/ StartLionmesh(d) \/ Fallback(d)
                       \/ Launch(d) \/ Stop(d) \/ Beat(d) \/ BeatDies(d)
    \/ \E h \in Heartbeat : OnDataRx(h) \/ LoseHeartbeat(h)
    \/ \E n \in Node \ {Me} : OnLoraRx(n)
    \/ GpsUpdate \/ Cleanup \/ DaemonTick

DaemonSpec == DaemonInit /\ [][DaemonNext]_daemonVars

-----------------------------------------------------------------------------
(* Properties                                                              *)

\* The state has its type, and threads live within their process: a node has
\* a mode while it is on, a heartbeat thread while it runs, and sweeps then.
DaemonTypeOK ==
    /\ phase \in [Node -> {"off", "radio", "running"}]
    /\ mode \in [Node -> ConfMode \cup {"none"}]
    /\ beat \in [Node -> {"none", "alive", "dead"}]
    /\ air \subseteq Heartbeat
    /\ nodes \in Dict
    /\ sweeping \in BOOLEAN
    /\ lag \in 0..MaxLag
    /\ ranAge \in [Node -> Age]
    /\ \A d \in Node : /\ phase[d] = "off" <=> mode[d] = "none"
                       /\ phase[d] = "running" <=> beat[d] # "none"
    /\ sweeping => phase[Me] = "running"

\* The node list shows a node as online on the data plane only if it ran, in
\* a mode that sends, within the time "online" stands for: whatever comes by
\* LoRa, arrives late, or crosses a stop, a restart or a sweep.
OnlineMeansRan == \A n \in Node \cap DOMAIN nodes :
    DataOnline(nodes[n]) => ranAge[n] < OnlineAge

\* "Broadcast a JSON heartbeat on the data plane every 15 seconds."
\* (main.py:128): a node that runs has a heartbeat thread that is alive.
HeartbeatAlive == \A d \in Node : phase[d] = "running" => beat[d] = "alive"

presence == INSTANCE Presence
    WITH age <- [id \in DOMAIN nodes |-> Silence(nodes[id])]

\* Updates of both planes, the sweep with a clock read before it waited for
\* the lock, and restarts implement the list that Presence describes.
ImplementsPresence == presence!Spec

\* Who is not heard any more disappears from the list, unless heard again.
SilentForgotten == \A id \in Id :
    id \in DOMAIN nodes /\ Silence(nodes[id]) = Old
        ~> id \notin DOMAIN nodes \/ Silence(nodes[id]) < Old
=============================================================================
