---------------------------- MODULE DaemonProofs ----------------------------
(***************************************************************************)
(* Proofs about Daemon, for any number of nodes and ids, any ages and any  *)
(* wait for the registry's lock.                                           *)
(***************************************************************************)
EXTENDS Daemon, TLAPS

-----------------------------------------------------------------------------
(* The registry                                                            *)

LEMMA AgeFacts ==
    /\ Old \in Nat /\ MaxAge < Old
    /\ 0 \in Age /\ Old \in Age
    /\ \A a \in Age : a \in Nat /\ a <= Old /\ Older(a) \in Age
<1>1. Old \in Nat /\ MaxAge < Old /\ MaxLag \in Nat
  BY RegistryAssumption DEF Old
<1>2. ASSUME NEW a \in Age PROVE a \in Nat /\ a <= Old /\ Older(a) \in Age
  BY <1>1 DEF Age, Older
<1> QED
  BY <1>1, <1>2 DEF Age

LEMMA OlderMonotone ==
    ASSUME NEW a \in Age, NEW b \in Age, a <= b
    PROVE  Older(a) <= Older(b)
<1>1. a \in Nat /\ b \in Nat /\ a <= Old /\ b <= Old /\ Old \in Nat
  BY AgeFacts
<1> QED
  BY <1>1 DEF Older

LEMMA DictFacts ==
    /\ Empty \in Dict
    /\ \A r \in Dict : /\ DOMAIN r \subseteq Id
                       /\ \A id \in DOMAIN r : r[id] \in Entry
    /\ \A S \in SUBSET Id : [S -> Entry] \subseteq Dict
<1>1. Empty \in [{} -> Entry] /\ {} \in SUBSET Id
  BY DEF Empty
<1> QED
  BY <1>1 DEF Dict

LEMMA NodeEntryTyped ==
    /\ NodeEntry \in Entry
    /\ \A r \in Dict, id \in Id : Setdefault(r, id) \in Entry
<1>1. NodeEntry \in Entry
  BY AgeFacts DEF NodeEntry, Entry
<1> QED
  BY <1>1, DictFacts DEF Setdefault

LEMMA StoredTyped ==
    ASSUME NEW r \in Dict, NEW id \in Id, NEW e \in Entry
    PROVE  /\ Stored(r, id, e) \in Dict
           /\ DOMAIN Stored(r, id, e) = DOMAIN r \cup {id}
           /\ \A i \in DOMAIN r \cup {id} :
                 Stored(r, id, e)[i] = IF i = id THEN e ELSE r[i]
<1>1. DOMAIN r \subseteq Id /\ \A i \in DOMAIN r : r[i] \in Entry
  BY DictFacts
<1>2. Stored(r, id, e) \in [DOMAIN r \cup {id} -> Entry]
  BY <1>1 DEF Stored
<1>3. DOMAIN r \cup {id} \in SUBSET Id
  BY <1>1
<1> QED
  BY <1>2, <1>3, DictFacts DEF Stored

LEMMA SweptTyped ==
    ASSUME NEW r \in Dict, NEW n \in Nat
    PROVE  /\ RemoveStale(r, n) \in Dict
           /\ DOMAIN RemoveStale(r, n) = {i \in DOMAIN r : Silence(r[i]) <= MaxAge + n}
           /\ \A i \in DOMAIN RemoveStale(r, n) : RemoveStale(r, n)[i] = r[i]
<1> DEFINE S == {i \in DOMAIN r : Silence(r[i]) <= MaxAge + n}
<1>1. S \in SUBSET Id /\ \A i \in S : r[i] \in Entry
  BY DictFacts
<1>2. RemoveStale(r, n) \in [S -> Entry]
  BY <1>1 DEF RemoveStale
<1> QED
  BY <1>1, <1>2, DictFacts DEF RemoveStale

LEMMA AgedTyped ==
    ASSUME NEW r \in Dict
    PROVE  /\ Aged(r) \in Dict
           /\ DOMAIN Aged(r) = DOMAIN r
           /\ \A i \in DOMAIN r : /\ Aged(r)[i].lora = Older(r[i].lora)
                                  /\ Aged(r)[i].data = Older(r[i].data)
<1>1. DOMAIN r \in SUBSET Id /\ \A i \in DOMAIN r : r[i] \in Entry
  BY DictFacts
<1>2. \A i \in DOMAIN r : [lora |-> Older(r[i].lora), data |-> Older(r[i].data)] \in Entry
  BY <1>1, AgeFacts DEF Entry
<1>3. Aged(r) \in [DOMAIN r -> Entry]
  BY <1>2 DEF Aged
<1> QED
  BY <1>1, <1>3, DictFacts DEF Aged

LEMMA UpdateTyped ==
    ASSUME NEW r \in Dict, NEW id \in Id
    PROVE  /\ UpdateFromLora(r, id) \in Dict
           /\ UpdateFromDataPlane(r, id) \in Dict
           /\ DOMAIN UpdateFromLora(r, id) = DOMAIN r \cup {id}
           /\ DOMAIN UpdateFromDataPlane(r, id) = DOMAIN r \cup {id}
           /\ UpdateFromLora(r, id)[id] = [Setdefault(r, id) EXCEPT !.lora = 0]
           /\ UpdateFromDataPlane(r, id)[id] = [Setdefault(r, id) EXCEPT !.data = 0]
           /\ \A i \in DOMAIN r \ {id} : /\ UpdateFromLora(r, id)[i] = r[i]
                                         /\ UpdateFromDataPlane(r, id)[i] = r[i]
<1> DEFINE e == Setdefault(r, id)
<1>1. e \in Entry /\ [e EXCEPT !.lora = 0] \in Entry /\ [e EXCEPT !.data = 0] \in Entry
  BY NodeEntryTyped, AgeFacts DEF Entry
<1> QED
  BY <1>1, StoredTyped DEF UpdateFromLora, UpdateFromDataPlane

LEMMA UpdateEffect ==
    ASSUME NEW r \in Dict, NEW id \in Id, NEW i \in DOMAIN r \cup {id}
    PROVE  LET a == UpdateFromLora(r, id)[i]
               b == UpdateFromDataPlane(r, id)[i]
           IN /\ a.data = IF i = id THEN Setdefault(r, id).data ELSE r[i].data
              /\ b.data = IF i = id THEN 0 ELSE r[i].data
              /\ Silence(a) = IF i = id THEN 0 ELSE Silence(r[i])
              /\ Silence(b) = IF i = id THEN 0 ELSE Silence(r[i])
<1> DEFINE e == Setdefault(r, id)
<1>1. e \in [lora : Age, data : Age]
  BY NodeEntryTyped DEF Entry
<1>2. CASE i = id
  <2>1. /\ UpdateFromLora(r, id)[i] = [e EXCEPT !.lora = 0]
        /\ UpdateFromDataPlane(r, id)[i] = [e EXCEPT !.data = 0]
    BY <1>2, UpdateTyped
  <2>2. /\ [e EXCEPT !.lora = 0].lora = 0 /\ [e EXCEPT !.lora = 0].data = e.data
        /\ [e EXCEPT !.data = 0].data = 0 /\ [e EXCEPT !.data = 0].lora = e.lora
        /\ e.lora \in Nat /\ e.data \in Nat
    BY <1>1, AgeFacts
  <2> QED
    BY <1>2, <2>1, <2>2 DEF Silence
<1>3. CASE i # id
  <2>1. i \in DOMAIN r \ {id}
    BY <1>3
  <2>2. UpdateFromLora(r, id)[i] = r[i] /\ UpdateFromDataPlane(r, id)[i] = r[i]
    BY <1>3, <2>1 DEF UpdateFromLora, UpdateFromDataPlane, Stored
  <2> QED
    BY <1>3, <2>2
<1> QED
  BY <1>2, <1>3

-----------------------------------------------------------------------------
(* Types, and how recent the data plane's news can be                      *)

\* A node in a mode that sends has just run in one, so has one whose heartbeat
\* is on its way, and no entry is more recent than its node's last such mode.
RanInv ==
    /\ \A d \in Node : mode[d] \in SendMode => ranAge[d] = 0
    /\ \A h \in air : ranAge[h.from] = 0
    /\ \A n \in Node \cap DOMAIN nodes : ranAge[n] <= nodes[n].data

DaemonInv == DaemonTypeOK /\ RanInv

LEMMA DaemonInitInv == DaemonInit => DaemonInv
<1> SUFFICES ASSUME DaemonInit PROVE DaemonInv
  OBVIOUS
<1>1. DOMAIN nodes = {} /\ 0 \in 0..MaxLag
  BY RegistryAssumption DEF DaemonInit, Empty
<1> QED
  BY <1>1, AgeFacts, DictFacts DEF DaemonInit, DaemonInv, DaemonTypeOK, RanInv, SendMode

LEMMA NodesUntouched ==
    ASSUME DaemonInv, nodes' = nodes,
           \A d \in Node : ranAge'[d] <= ranAge[d],
           ranAge' \in [Node -> Age]
    PROVE  \A n \in Node \cap DOMAIN nodes' : ranAge'[n] <= nodes'[n].data
<1>1. ASSUME NEW n \in Node \cap DOMAIN nodes PROVE ranAge'[n] <= nodes[n].data
  <2>1. ranAge'[n] \in Nat /\ ranAge[n] \in Nat /\ nodes[n].data \in Nat
    BY AgeFacts, DictFacts DEF DaemonInv, DaemonTypeOK, Entry
  <2> QED
    BY <2>1 DEF DaemonInv, RanInv
<1> QED
  BY <1>1

LEMMA DaemonNextInv == DaemonInv /\ [DaemonNext]_daemonVars => DaemonInv'
<1> SUFFICES ASSUME DaemonInv, [DaemonNext]_daemonVars PROVE DaemonInv'
  OBVIOUS
<1> USE DEF DaemonInv
<1>0. /\ \A d \in Node : ranAge[d] \in Age /\ ranAge[d] \in Nat
      /\ 0 \in Age /\ 0 \in 0..MaxLag /\ MaxLag \in Nat /\ lag \in Nat
      /\ Me \in Node /\ Node \subseteq Id
  <2>1. \A d \in Node : ranAge[d] \in Age
    BY DEF DaemonTypeOK
  <2>2. lag \in 0..MaxLag /\ MaxLag \in Nat
    BY RegistryAssumption DEF DaemonTypeOK
  <2>3. \A d \in Node : ranAge[d] \in Nat
    BY <2>1, AgeFacts
  <2>4. 0 \in Age
    BY AgeFacts
  <2> QED
    BY <2>1, <2>2, <2>3, <2>4, DaemonAssumption
<1>1. ASSUME NEW d \in Node, NEW m \in ConfMode, StartRadio(d, m) PROVE DaemonInv'
  <2>1. ranAge' \in [Node -> Age] /\ \A i \in Node : ranAge'[i] <= ranAge[i]
    BY <1>0, <1>1 DEF StartRadio, DaemonTypeOK
  <2>2. DaemonTypeOK'
    BY <1>1, <2>1 DEF StartRadio, DaemonTypeOK, ConfMode
  <2>3. \A i \in Node : ranAge[i] = 0 => ranAge'[i] = 0
    BY <1>1 DEF StartRadio, DaemonTypeOK
  <2>4. \A i \in Node : mode'[i] \in SendMode => ranAge'[i] = 0
    BY <1>1, <2>3 DEF StartRadio, DaemonTypeOK, RanInv
  <2>5. \A h \in air' : ranAge'[h.from] = 0
    BY <1>1, <2>3 DEF StartRadio, DaemonTypeOK, RanInv, Heartbeat
  <2> QED
    BY <1>1, <2>1, <2>2, <2>4, <2>5, NodesUntouched DEF StartRadio, RanInv
<1>2. ASSUME NEW d \in Node, Launch(d) PROVE DaemonInv'
  BY <1>2 DEF Launch, DaemonTypeOK, RanInv
<1>3. ASSUME NEW d \in Node, Stop(d) PROVE DaemonInv'
  <2>1. nodes' \in Dict /\ (nodes' = nodes \/ DOMAIN nodes' = {})
    BY <1>3, DictFacts DEF Stop, DaemonTypeOK, Empty
  <2>2. DaemonTypeOK'
    BY <1>0, <1>3, <2>1 DEF Stop, DaemonTypeOK
  <2>3. /\ UNCHANGED <<air, ranAge>>
        /\ \A i \in Node : mode'[i] = mode[i] \/ mode'[i] = "none"
    BY <1>3 DEF Stop, DaemonTypeOK
  <2>4. \A i \in Node : mode'[i] \in SendMode => ranAge'[i] = 0
    BY <2>3 DEF SendMode, RanInv
  <2>5. \A n \in Node \cap DOMAIN nodes' : ranAge'[n] <= nodes'[n].data
    BY <2>1, <2>3 DEF RanInv
  <2> QED
    BY <2>2, <2>3, <2>4, <2>5 DEF RanInv
<1>4. ASSUME NEW d \in Node, Beat(d) PROVE DaemonInv'
  <2>1. mode[d] \in SendMode /\ air' = air \cup {[from |-> d, via |-> mode[d]]}
    BY <1>4 DEF Beat
  <2>2. ranAge[d] = 0
    BY <2>1 DEF RanInv
  <2> QED
    BY <1>4, <2>1, <2>2 DEF Beat, DaemonTypeOK, RanInv, Heartbeat
<1>5. ASSUME NEW d \in Node, BeatDies(d) PROVE DaemonInv'
  BY <1>5 DEF BeatDies, DaemonTypeOK, RanInv
<1>6. ASSUME NEW h \in Heartbeat, OnDataRx(h) PROVE DaemonInv'
  <2>1. h.from \in Node /\ h.from \in Id /\ ranAge[h.from] = 0 /\ nodes \in Dict
    BY <1>0, <1>6 DEF OnDataRx, Heartbeat, RanInv, DaemonTypeOK
  <2>2. DaemonTypeOK'
    BY <1>6, <2>1, UpdateTyped DEF OnDataRx, DaemonTypeOK
  <2>3. ASSUME NEW n \in Node \cap DOMAIN nodes' PROVE ranAge[n] <= nodes'[n].data
    <3>1. n \in DOMAIN nodes \cup {h.from}
      BY <1>6, <2>1, UpdateTyped DEF OnDataRx
    <3>2. nodes'[n].data = IF n = h.from THEN 0 ELSE nodes[n].data
      BY <1>6, <2>1, <3>1, UpdateEffect DEF OnDataRx
    <3> QED
      BY <2>1, <3>1, <3>2 DEF RanInv
  <2> QED
    BY <1>6, <2>2, <2>3 DEF OnDataRx, RanInv
<1>7. ASSUME NEW h \in Heartbeat, LoseHeartbeat(h) PROVE DaemonInv'
  BY <1>7 DEF LoseHeartbeat, DaemonTypeOK, RanInv
<1>8. ASSUME NEW id \in Id, nodes' = UpdateFromLora(nodes, id),
             UNCHANGED <<phase, mode, beat, air, sweeping, lag, ranAge>>
      PROVE  DaemonInv'
  <2>1. nodes \in Dict /\ DaemonTypeOK'
    BY <1>8, UpdateTyped DEF DaemonTypeOK
  <2>2. ASSUME NEW n \in Node \cap DOMAIN nodes' PROVE ranAge[n] <= nodes'[n].data
    <3>1. n \in DOMAIN nodes \cup {id}
      BY <1>8, <2>1, UpdateTyped
    <3>2. nodes'[n].data = IF n = id THEN Setdefault(nodes, id).data ELSE nodes[n].data
      BY <1>8, <2>1, <3>1, UpdateEffect
    <3>3. CASE n \in DOMAIN nodes
      BY <3>2, <3>3 DEF Setdefault, RanInv
    <3>4. CASE n \notin DOMAIN nodes
      BY <1>0, <3>1, <3>2, <3>4, AgeFacts DEF Setdefault, NodeEntry
    <3> QED
      BY <3>3, <3>4
  <2> QED
    BY <1>8, <2>1, <2>2 DEF RanInv
<1>9. CASE CleanupReads
  BY <1>0, <1>9 DEF CleanupReads, DaemonTypeOK, RanInv
<1>10. CASE CleanupSweeps
  <2>1. nodes \in Dict /\ DaemonTypeOK'
    BY <1>0, <1>10, SweptTyped DEF CleanupSweeps, DaemonTypeOK
  <2>2. \A n \in DOMAIN nodes' : n \in DOMAIN nodes /\ nodes'[n] = nodes[n]
    BY <1>0, <1>10, <2>1, SweptTyped DEF CleanupSweeps
  <2> QED
    BY <1>10, <2>1, <2>2 DEF CleanupSweeps, RanInv
<1>11. CASE DaemonTick
  <2>1. ranAge' \in [Node -> Age] /\ lag' \in 0..MaxLag /\ nodes' \in Dict
    BY <1>0, <1>11, AgeFacts, AgedTyped DEF DaemonTick, DaemonTypeOK
  <2>2. DaemonTypeOK'
    BY <1>11, <2>1 DEF DaemonTick, DaemonTypeOK
  <2>3. ASSUME NEW n \in Node \cap DOMAIN nodes' PROVE ranAge'[n] <= nodes'[n].data
    <3>1. /\ n \in DOMAIN nodes /\ nodes[n].data \in Age
          /\ nodes'[n].data = Older(nodes[n].data)
      BY <1>11, AgedTyped, DictFacts DEF DaemonTick, DaemonTypeOK, Entry
    <3>2. Older(ranAge[n]) <= Older(nodes[n].data)
      BY <1>0, <3>1, OlderMonotone DEF RanInv
    <3>3. CASE mode[n] \in SendMode
      <4>1. ranAge'[n] = 0 /\ nodes'[n].data \in Nat
        BY <1>11, <3>1, <3>3, AgeFacts DEF DaemonTick
      <4> QED
        BY <4>1
    <3>4. CASE mode[n] \notin SendMode
      BY <1>11, <3>1, <3>2, <3>4 DEF DaemonTick
    <3> QED
      BY <3>3, <3>4
  <2>4. \A d \in Node : mode'[d] \in SendMode => ranAge'[d] = 0
    BY <1>11 DEF DaemonTick
  <2> QED
    BY <1>11, <2>2, <2>3, <2>4 DEF DaemonTick, RanInv
<1>12. CASE UNCHANGED daemonVars
  BY <1>12 DEF daemonVars, DaemonTypeOK, RanInv
<1>13. ASSUME NEW d \in Node, StartLionmesh(d) \/ Fallback(d) PROVE DaemonInv'
  BY <1>1, <1>13 DEF StartLionmesh, Fallback, ConfMode
<1>14. ASSUME NEW n \in Node \ {Me}, OnLoraRx(n) PROVE DaemonInv'
  BY <1>8, <1>14, DaemonAssumption DEF OnLoraRx
<1>15. CASE GpsUpdate
  BY <1>0, <1>8, <1>15 DEF GpsUpdate
<1> QED
  BY <1>1, <1>2, <1>3, <1>4, <1>5, <1>6, <1>7, <1>9, <1>10, <1>11, <1>12, <1>13,
     <1>14, <1>15 DEF DaemonNext, StartWifi, Cleanup

LEMMA DaemonInvariant == DaemonSpec => []DaemonInv
BY DaemonInitInv, DaemonNextInv, PTL DEF DaemonSpec

\* The daemons' state has its type, in every interleaving of their threads.
THEOREM DaemonTypeCorrect == DaemonSpec => []DaemonTypeOK
BY DaemonInvariant, PTL DEF DaemonInv

\* Whatever is lost, late, stopped or restarted, a node is listed as online on
\* the data plane only within the online time of its last mode that sends.
THEOREM OnlineMeansItRan == DaemonSpec => []OnlineMeansRan
<1>1. DaemonInv => OnlineMeansRan
  <2> SUFFICES ASSUME DaemonInv, NEW n \in Node \cap DOMAIN nodes, DataOnline(nodes[n])
               PROVE  ranAge[n] < OnlineAge
    BY DEF OnlineMeansRan
  <2>1. ranAge[n] \in Nat /\ nodes[n].data \in Nat /\ OnlineAge \in Nat
    BY AgeFacts, DictFacts, RegistryAssumption DEF DaemonInv, DaemonTypeOK, Entry
  <2> QED
    BY <2>1 DEF DaemonInv, RanInv, DataOnline
<1> QED
  BY <1>1, DaemonInvariant, PTL

-----------------------------------------------------------------------------
(* Refinement                                                              *)

Shown(r) == [id \in DOMAIN r |-> Silence(r[id])]

LEMMA UpdateHears ==
    ASSUME NEW r \in Dict, NEW id \in Id, NEW u,
           u = UpdateFromLora(r, id) \/ u = UpdateFromDataPlane(r, id)
    PROVE  Shown(u) = [i \in DOMAIN Shown(r) \cup {id} |->
                          IF i = id THEN 0 ELSE Shown(r)[i]]
<1>1. DOMAIN u = DOMAIN r \cup {id}
  BY UpdateTyped
<1>2. \A i \in DOMAIN r \cup {id} : Silence(u[i]) = IF i = id THEN 0 ELSE Silence(r[i])
  BY UpdateEffect
<1> QED
  BY <1>1, <1>2 DEF Shown

LEMMA SweepForgets ==
    ASSUME NEW r \in Dict, NEW n \in Nat
    PROVE  LET S == {id \in DOMAIN r : Silence(r[id]) > MaxAge + n}
           IN /\ S \in SUBSET DOMAIN Shown(r)
              /\ \A id \in S : Shown(r)[id] > MaxAge
              /\ Shown(RemoveStale(r, n)) =
                    [id \in DOMAIN Shown(r) \ S |-> Shown(r)[id]]
<1> DEFINE S == {id \in DOMAIN r : Silence(r[id]) > MaxAge + n}
<1>1. \A id \in DOMAIN r : Silence(r[id]) \in Nat
  BY DictFacts, AgeFacts DEF Entry, Silence
<1>2. MaxAge \in Nat
  BY RegistryAssumption
<1>3. DOMAIN RemoveStale(r, n) = DOMAIN r \ S
  <2>1. {i \in DOMAIN r : Silence(r[i]) <= MaxAge + n} = DOMAIN r \ S
    BY <1>1, <1>2
  <2>2. DOMAIN RemoveStale(r, n) = {i \in DOMAIN r : Silence(r[i]) <= MaxAge + n}
    BY SweptTyped
  <2> QED
    BY <2>1, <2>2
<1>4. \A id \in DOMAIN r \ S : RemoveStale(r, n)[id] = r[id]
  BY <1>3, SweptTyped
<1> QED
  BY <1>1, <1>2, <1>3, <1>4 DEF Shown

LEMMA AgedTicks ==
    ASSUME NEW r \in Dict
    PROVE  Shown(Aged(r)) = [id \in DOMAIN Shown(r) |-> Older(Shown(r)[id])]
<1>1. ASSUME NEW id \in DOMAIN r PROVE Silence(Aged(r)[id]) = Older(Silence(r[id]))
  <2>1. r[id].lora \in Age /\ r[id].data \in Age
    BY DictFacts DEF Entry
  <2>2. /\ r[id].lora \in Nat /\ r[id].lora <= Old
        /\ r[id].data \in Nat /\ r[id].data <= Old /\ Old \in Nat
    BY <2>1, AgeFacts
  <2>3. /\ Aged(r)[id].lora = Older(r[id].lora)
        /\ Aged(r)[id].data = Older(r[id].data)
    BY AgedTyped
  <2> QED
    BY <2>2, <2>3 DEF Silence, Older
<1> QED
  BY <1>1, AgedTyped DEF Shown

\* The registry of a node, with both planes, the sweep and restarts, is the
\* list of Presence: nobody is taken off it who was heard within MaxAge.
THEOREM RegistryIsPresence == DaemonSpec => ImplementsPresence
<1> DEFINE age == [id \in DOMAIN nodes |-> Silence(nodes[id])]
<1>1. DaemonInit => presence!Init
  BY DEF DaemonInit, presence!Init, Empty
<1>2. DaemonInv /\ [DaemonNext]_daemonVars => [presence!Next]_age
  <2> SUFFICES ASSUME DaemonInv, [DaemonNext]_daemonVars
               PROVE  presence!Next \/ UNCHANGED age
    OBVIOUS
  <2>0. /\ nodes \in Dict /\ age = Shown(nodes) /\ age' = Shown(nodes')
        /\ Me \in Id /\ lag \in Nat
    BY DaemonAssumption, RegistryAssumption DEF DaemonInv, DaemonTypeOK, Shown
  <2>1. ASSUME NEW id \in Id, nodes' = UpdateFromLora(nodes, id)
                              \/ nodes' = UpdateFromDataPlane(nodes, id)
        PROVE  presence!Next
    <3>0. nodes \in Dict
      BY <2>0
    <3>1. Shown(nodes') = [i \in DOMAIN Shown(nodes) \cup {id} |->
                              IF i = id THEN 0 ELSE Shown(nodes)[i]]
      <4>1. ASSUME NEW u, u = UpdateFromLora(nodes, id) \/ u = UpdateFromDataPlane(nodes, id)
            PROVE  Shown(u) = [i \in DOMAIN Shown(nodes) \cup {id} |->
                                  IF i = id THEN 0 ELSE Shown(nodes)[i]]
        BY <3>0, <4>1, UpdateHears
      <4> HIDE DEF age
      <4> QED
        BY <2>1, <4>1
    <3>2. presence!Hear(id)
      BY <2>0, <3>1 DEF presence!Hear
    <3> QED
      BY <3>2 DEF presence!Next
  <2>2. CASE CleanupSweeps
    <3> DEFINE S == {id \in DOMAIN nodes : Silence(nodes[id]) > MaxAge + lag}
    <3>1. /\ S \in SUBSET DOMAIN Shown(nodes)
          /\ \A id \in S : Shown(nodes)[id] > MaxAge
          /\ Shown(RemoveStale(nodes, lag)) =
                [id \in DOMAIN Shown(nodes) \ S |-> Shown(nodes)[id]]
      BY <2>0, SweepForgets
    <3>2. nodes' = RemoveStale(nodes, lag)
      BY <2>2 DEF CleanupSweeps
    <3>3. S \in SUBSET DOMAIN age /\ presence!Forget(S)
      BY <2>0, <3>1, <3>2 DEF presence!Forget
    <3> QED
      BY <3>3 DEF presence!Next
  <2>3. CASE DaemonTick
    BY <2>0, <2>3, AgedTicks DEF DaemonTick, presence!Next, presence!Tick,
                                 Older, Old, presence!Old
  <2>4. ASSUME NEW d \in Node, Stop(d) PROVE presence!Next \/ UNCHANGED age
    <3>1. CASE d = Me
      BY <2>4, <3>1 DEF Stop, Empty, presence!Next, presence!Restart
    <3>2. CASE d # Me
      BY <2>4, <3>2 DEF Stop
    <3> QED
      BY <3>1, <3>2
  <2>5. CASE UNCHANGED nodes
    BY <2>5
  <2>6. ASSUME NEW d \in Node,
               \/ \E conf \in ConfMode : StartWifi(d, conf)
               \/ StartLionmesh(d) \/ Fallback(d)
               \/ Launch(d) \/ Beat(d) \/ BeatDies(d)
        PROVE  UNCHANGED nodes
    BY <2>6 DEF StartWifi, StartLionmesh, Fallback, StartRadio, Launch, Beat, BeatDies
  <2>7. ASSUME NEW h \in Heartbeat, OnDataRx(h) \/ LoseHeartbeat(h)
        PROVE  presence!Next \/ UNCHANGED nodes
    <3>1. h.from \in Id
      BY DaemonAssumption DEF Heartbeat
    <3> QED
      BY <2>1, <2>7, <3>1 DEF OnDataRx, LoseHeartbeat
  <2>8. ASSUME NEW n \in Node \ {Me}, OnLoraRx(n) PROVE presence!Next
    BY <2>1, <2>8, DaemonAssumption DEF OnLoraRx
  <2>9. CASE GpsUpdate
    BY <2>0, <2>1, <2>9 DEF GpsUpdate
  <2>10. CASE CleanupReads \/ UNCHANGED daemonVars
    BY <2>5, <2>10 DEF CleanupReads, daemonVars
  <2> QED
    BY <2>2, <2>3, <2>4, <2>5, <2>6, <2>7, <2>8, <2>9, <2>10 DEF DaemonNext, Cleanup
<1> QED
  BY <1>1, <1>2, DaemonInvariant, PTL DEF DaemonSpec, ImplementsPresence, presence!Spec
=============================================================================
