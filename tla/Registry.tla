------------------------------ MODULE Registry ------------------------------
(***************************************************************************)
(* The node registry of daemon/registry.py: a dictionary of entries, each  *)
(* with the time its node was last heard on the LoRa plane and on the data *)
(* plane.  Every method runs under one lock, so it is a function of the    *)
(* dictionary.  A time stamp is modelled by its age in ticks; an age stops *)
(* at Old, from where no comparison of the code tells it from never (None, *)
(* which the code compares as 0).                                          *)
(***************************************************************************)
EXTENDS Naturals

CONSTANTS
    Id,         \* node ids
    OnlineAge,  \* 90 s
    MaxAge,     \* 300 s
    MaxLag      \* bound: ticks remove_stale may wait for the lock

ASSUME RegistryAssumption ==
    /\ OnlineAge \in Nat \ {0} /\ MaxAge \in Nat /\ MaxLag \in Nat
    /\ OnlineAge <= MaxAge + 1

Old == MaxAge + MaxLag + 1

Age == 0..Old

Older(a) == IF a = Old THEN Old ELSE a + 1

Entry == [lora : Age, data : Age]

Dict == UNION {[S -> Entry] : S \in SUBSET Id}

NodeEntry == [lora |-> Old, data |-> Old]

Empty == [id \in {} |-> NodeEntry]

Setdefault(r, id) == IF id \in DOMAIN r THEN r[id] ELSE NodeEntry

Stored(r, id, e) == [i \in DOMAIN r \cup {id} |-> IF i = id THEN e ELSE r[i]]

\* Fault: an update of the LoRa plane counts for both planes.
UpdateFromLoraBoth(r, id) == Stored(r, id, [lora |-> 0, data |-> 0])

UpdateFromLora(r, id) == Stored(r, id, [Setdefault(r, id) EXCEPT !.lora = 0])

UpdateFromDataPlane(r, id) ==
    Stored(r, id, [Setdefault(r, id) EXCEPT !.data = 0])

\* now - max(last_lora_seen or 0, last_data_seen or 0)
Silence(e) == IF e.lora <= e.data THEN e.lora ELSE e.data

\* What NodeEntry.online asks of the data plane.
DataOnline(e) == e.data < OnlineAge

\* Fault: only the data plane counts.
RemoveStaleData(r, lag) ==
    [id \in {i \in DOMAIN r : r[i].data <= MaxAge + lag} |-> r[id]]

\* Fault: the time stamp is compared with max_age_s, and never below it.
RemoveStaleNever(r, lag) == r

\* remove_stale, lag ticks after it read the clock: an entry goes if it is
\* older than MaxAge was at that time.
RemoveStale(r, lag) ==
    [id \in {i \in DOMAIN r : Silence(r[i]) <= MaxAge + lag} |-> r[id]]

Aged(r) == [id \in DOMAIN r |-> [lora |-> Older(r[id].lora),
                                 data |-> Older(r[id].data)]]
=============================================================================
