------------------------------ MODULE TxQueue ------------------------------
(***************************************************************************)
(* PriorityTXQueue of phy/mac_simple.py: three bounded FIFO queues, one    *)
(* consumer (the TX worker) that looks at them one after the other without *)
(* a common lock, and an Event that producers set and the consumer clears. *)
(* Each get_nowait, put, set, wait and clear is a step of its own, so that *)
(* producers run between any two of them.                                  *)
(***************************************************************************)
EXTENDS Integers, Sequences, FiniteSets, Functions

CONSTANTS
    Producer,   \* threads that put: receive thread, datagram senders, callers
    ClassOf,    \* the priority class a producer uses
    Cap,        \* maxsize of each class
    ItemLimit   \* bound: items per producer

\* PRIO_CONTROL, PRIO_VIDEO, PRIO_DATA
Class == {"control", "video", "data"}

\* Only send_reliable puts with block=True; the other two drop when full.
Blocking(class) == class = "data"

Item == Producer \X (1..ItemLimit)

ASSUME QueueAssumption ==
    /\ ClassOf \in [Producer -> Class]
    /\ Cap \in [Class -> Nat \ {0}]
    /\ ItemLimit \in Nat

VARIABLES
    queue,      \* _queues
    notEmpty,   \* the flag of _not_empty
    put,        \* how many items a producer has offered
    setting,    \* producers between Queue.put and Event.set
    getPc,      \* the consumer: queue it looks at next, "wait" or "clear"
    \* history
    accepted,   \* what each queue has accepted, in order
    handed,      \* what the consumer has taken from each queue
    overtaken   \* lower-priority items taken while the head of a queue waits

queueVars == <<queue, notEmpty, put, setting, getPc, accepted, handed, overtaken>>

QueueInit ==
    /\ queue = [k \in Class |-> <<>>]
    /\ notEmpty = FALSE
    /\ put = [p \in Producer |-> 0]
    /\ setting = {}
    /\ getPc = "control"
    /\ accepted = [k \in Class |-> <<>>]
    /\ handed = [k \in Class |-> <<>>]
    /\ overtaken = [k \in Class |-> 0]

-----------------------------------------------------------------------------
(* put                                                                     *)

Offer(p) == <<p, put[p] + 1>>

MayPut(p) == p \notin setting /\ put[p] < ItemLimit

\* Fault: the queue has no limit.
PutUnbounded(p) ==
    LET k == ClassOf[p]
    IN  /\ MayPut(p)
        /\ queue' = [queue EXCEPT ![k] = Append(@, Offer(p))]
        /\ accepted' = [accepted EXCEPT ![k] = Append(@, Offer(p))]
        /\ put' = [put EXCEPT ![p] = @ + 1]
        /\ setting' = setting \cup {p}
        /\ UNCHANGED <<notEmpty, getPc, handed, overtaken>>

\* self._queues[priority].put(item); a blocking put waits for room.
Put(p) ==
    LET k == ClassOf[p]
    IN  /\ MayPut(p)
        /\ Len(queue[k]) < Cap[k]
        /\ queue' = [queue EXCEPT ![k] = Append(@, Offer(p))]
        /\ accepted' = [accepted EXCEPT ![k] = Append(@, Offer(p))]
        /\ overtaken' = [overtaken EXCEPT ![k] = IF queue[k] = <<>> THEN 0 ELSE @]
        /\ put' = [put EXCEPT ![p] = @ + 1]
        /\ setting' = setting \cup {p}
        /\ UNCHANGED <<notEmpty, getPc, handed>>

\* Fault: a full queue makes room by dropping its oldest item.
DropOldest(p) ==
    LET k == ClassOf[p]
    IN  /\ MayPut(p)
        /\ ~Blocking(k) /\ Len(queue[k]) >= Cap[k]
        /\ queue' = [queue EXCEPT ![k] = Append(Tail(@), Offer(p))]
        /\ accepted' = [accepted EXCEPT ![k] = Append(@, Offer(p))]
        /\ put' = [put EXCEPT ![p] = @ + 1]
        /\ setting' = setting \cup {p}
        /\ UNCHANGED <<notEmpty, getPc, handed, overtaken>>

\* queue.Full: the item is dropped and the Event is left alone.
Drop(p) ==
    LET k == ClassOf[p]
    IN  /\ MayPut(p)
        /\ ~Blocking(k) /\ Len(queue[k]) >= Cap[k]
        /\ put' = [put EXCEPT ![p] = @ + 1]
        /\ UNCHANGED <<queue, notEmpty, setting, getPc, accepted, handed, overtaken>>

\* self._not_empty.set()
SetEvent(p) ==
    /\ p \in setting
    /\ notEmpty' = TRUE
    /\ setting' = setting \ {p}
    /\ UNCHANGED <<queue, put, getPc, accepted, handed, overtaken>>

-----------------------------------------------------------------------------
(* get                                                                     *)

\* Fault: the Event is cleared after the scan and before the wait.
ClearBeforeWait == [control |-> "video", video |-> "data", data |-> "clear",
                    wait |-> "control", clear |-> "wait"]

\* Fault: the video queue is left out of the scan.
ScanWithoutVideo == [control |-> "data", video |-> "data", data |-> "wait",
                     wait |-> "clear", clear |-> "control"]

\* The order of the consumer's loop when it finds nothing.
Following == [control |-> "video", video |-> "data", data |-> "wait",
              wait |-> "clear", clear |-> "control"]

Lower(k) == CASE k = "control" -> {"video", "data"}
              [] k = "video" -> {"data"}
              [] k = "data" -> {}

\* Fault: the scan goes on where it was.
StayAt(k) == k

\* get returns the item; the next call scans from the top.
Restart(k) == "control"

Take(k) ==
    /\ getPc = k /\ queue[k] # <<>>
    /\ queue' = [queue EXCEPT ![k] = Tail(@)]
    /\ handed' = [handed EXCEPT ![k] = Append(@, Head(queue[k]))]
    /\ overtaken' = [h \in Class |->
                        IF h = k THEN 0
                        ELSE IF k \in Lower(h) /\ queue[h] # <<>>
                             THEN overtaken[h] + 1 ELSE overtaken[h]]
    /\ getPc' = Restart(k)
    /\ UNCHANGED <<notEmpty, put, setting, accepted>>

\* queue.Empty: on to the next one.
Miss(k) ==
    /\ getPc = k /\ queue[k] = <<>>
    /\ getPc' = Following[k]
    /\ UNCHANGED <<queue, notEmpty, put, setting, accepted, handed, overtaken>>

\* get has used up its timeout: it raises Empty and the worker calls it again.
Expire ==
    /\ getPc = "wait"
    /\ getPc' = "control"
    /\ UNCHANGED <<queue, notEmpty, put, setting, accepted, handed, overtaken>>

\* _not_empty.wait(timeout=min(0.005, remaining)), ended by the flag ...
Wake ==
    /\ getPc = "wait" /\ notEmpty
    /\ getPc' = Following["wait"]
    /\ UNCHANGED <<queue, notEmpty, put, setting, accepted, handed, overtaken>>

\* ... or by the timeout.
Poll ==
    /\ getPc = "wait" /\ ~notEmpty
    /\ getPc' = Following["wait"]
    /\ UNCHANGED <<queue, notEmpty, put, setting, accepted, handed, overtaken>>

ClearEvent ==
    /\ getPc = "clear"
    /\ notEmpty' = FALSE
    /\ getPc' = Following["clear"]
    /\ UNCHANGED <<queue, put, setting, accepted, handed, overtaken>>

-----------------------------------------------------------------------------
GetStep == \/ \E k \in Class : Take(k) \/ Miss(k)
           \/ Expire \/ Wake \/ Poll \/ ClearEvent

QueueNext == GetStep \/ \E p \in Producer : Put(p) \/ Drop(p) \/ SetEvent(p)

QueueSpec == QueueInit /\ [][QueueNext]_queueVars

-----------------------------------------------------------------------------
(* Properties                                                              *)

\* The queues keep to their sizes, the consumer is at one of its statements.
QueueTypeOK ==
    /\ queue \in [Class -> Seq(Item)]
    /\ \A k \in Class : Len(queue[k]) <= Cap[k]
    /\ notEmpty \in BOOLEAN
    /\ put \in [Producer -> 0..ItemLimit]
    /\ setting \subseteq Producer
    /\ getPc \in Class \cup {"wait", "clear"}
    /\ accepted \in [Class -> Seq(Item)]
    /\ handed \in [Class -> Seq(Item)]
    /\ overtaken \in [Class -> Nat]

\* No wake-up is lost: if the consumer waits on a lowered flag while there is
\* something to send, a producer is about to raise it.  The 5 ms poll is not
\* needed to find an item; without the order wait, clear, scan it would be.
NoLostWakeup ==
    getPc = "wait" /\ ~notEmpty /\ (\E k \in Class : queue[k] # <<>>)
        => setting # {}

\* An accepted item is taken once and in order of its class: what a queue
\* accepted is what was taken from it followed by what is still in it.
FifoPerClass == \A k \in Class : accepted[k] = handed[k] \o queue[k]

\* "Control frames always jump ahead of video and data": as the scan is not
\* atomic, a frame can be overtaken, but by one frame of a lower class only.
OneFrameAhead == \A k \in Class : overtaken[k] <= 1

\* Every backlog is handed to the radio, also one below the higher classes, as
\* long as the traffic is finite: with FifoPerClass, every accepted item is.
EveryItemTaken == \A k \in Class : queue[k] # <<>> ~> queue[k] = <<>>

=============================================================================
