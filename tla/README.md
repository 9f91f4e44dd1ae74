# LionMesh: TLA+ specifications and proofs

LionMesh is a mesh radio node: an OFDM physical layer in Python, a MAC layer
with reliable and unreliable transfer, a video pipeline, a daemon that joins
them with GPS and LoRa, and a web application. This directory holds TLA+
modules of the parts where threads, losses and retries meet, TLC
configurations that check them on small instances, and TLAPS proofs of what
holds for every instance. Line numbers refer to the files of the repository.

    tlc -config MacArqPair.cfg MCMacArq        check one run
    tlapm MacArqProofs.tla                     check one module's proofs

## 1. The system

| component | code | state | operations | what makes it correct |
|---|---|---|---|---|
| Reliable transfer | `phy/mac_simple.py` `MACLayer` 327-472 | `_seq`, `_pending`, `_ack_evt`, per call: frame and attempt | `send_reliable`, `_tx_worker`, `_handle_rx`, `_send_control` | success means acceptance, an ACK in time means success, bounded duplicates, order, every call returns |
| Adaptive modulation | `AdaptiveMCS` 219-237 | `mcs`, `_ok`, `_fail` | `ack`, `nack` | the rate stays in range |
| Priority TX queue | `PriorityTXQueue` 248-311 | three bounded queues, one Event | `put`, `get` | nothing accepted is lost or reordered, no lost wake-up, bounded priority inversion, every item is sent |
| Datagrams | `fragment` 124-149, `ReassemblyBuffer` 152-212, `send_datagram` 362-375 | `_frag_id`, entries by frag_id | `send_datagram`, `add`, `_expire` | a message arrives whole or not at all, once, in order; the receive thread lives |
| Frame coding | `MACFrame` 69-117 | none | `encode`, `decode` | decode inverts encode, damage is detected |
| OFDM receiver | `phy/phy_ofdm.py` `OFDMReceiver` 878-1123, `tx_frame` 722-779 | sample buffer, HUNT/DATA, lengths, CFO phase | `push`, `_hunt`, `_decode_data` | every whole frame in the stream is decoded; both sides agree on the number of symbols |
| Radio front end | `phy/xtrx_radio.py` | TX buffer of 128 frames, frequency, duty-cycle window | `transmit`, workers, `set_frequency`, `tx_863`, `tx_2400` | a frame leaves on its band, within the duty cycle |
| Video | `phy/video_pipe.py` `VideoTX` 115-300, `VideoRX` 307-376 | sequence numbers, running flag, bitrate; reordering buffer | `start_gstreamer`, `stop`, `_abr_loop`, `on_rx` | a lost packet does not stop the stream, stop stops |
| Node keys | `phy/crypto.py` `NodeCrypto` 85-343 | key pair, peers, key directory | `load_or_generate`, `add_peer`, `save_peer`, `encrypt`, `decrypt` | the key survives a crash |
| Registry | `daemon/registry.py` | node entries with two time stamps, a lock | updates, `get_all`, `remove_stale` | an entry goes when, and only when, its node is silent |
| Daemon, radio manager | `daemon/main.py`, `daemon/radio.py` | mode, radio, MAC, threads | heartbeat, GPS and cleanup loops, `on_data_rx`, `start`, `status` | a live node stays visible to the others |
| API, web application | `daemon/api.py`, `webapp/` | injected references; marker table | routes; polls | thin |
| Control plane adapters, setup, CI | `control/`, `setup/` | none | wrappers, scripts | I/O |

How they interact. The front end calls `rx_push` on its receive thread;
`OFDMReceiver.push` turns samples into raw frames and `_handle_rx` runs for
each, on that thread: it answers requests through the control queue, resets
`_pending`, sets `_ack_evt`, and calls `on_rx` (`on_data_rx` of the daemon,
which writes the registry). The TX worker is the one consumer of the three
queues; it encodes, modulates and calls `transmit`. `send_datagram` runs on the
video and heartbeat threads, `send_reliable` on any caller's. Threads share the
MAC's fields without a lock, apart from the one inside `queue.Queue` and
`Event`.

What is hard here: the interleaving of callers, TX worker and receive thread
around `_pending` and `_ack_evt`; late, lost and repeated ACKs; the unlocked
scan of the queues; fragments of several messages in one buffer; queues at
their limits; exceptions that end a thread; key files written in two steps and
a process that ends in between; a clock read before a lock; a bitrate thread
that acts on a scheme read earlier; a radio retuned while frames wait. `PROJECT.json`
lists these hazards with their lines.

## 2. The modules

| module | models | |
|---|---|---|
| `AdaptiveMcs` | the modulation controller, as functions of its record | used by `MacArq` |
| `ArqService` | what the receivers of reliable calls may expect | abstract specification |
| `MacArq` | reliable transfer: callers, TX worker, receive thread of all nodes, lossy radio; implements `ArqService` | state machine |
| `MCMacArq` | instances of it | TLC |
| `MacArqProofs` | type correctness, truthfulness of ACKs, bound and order of the copies, budget of the successes, refinement | TLAPS |
| `TxQueue` | the priority queue at the grain of its Queue and Event calls | state machine |
| `MCTxQueue`, `TxQueueProofs` | instance; proofs of its four safety properties | TLC, TLAPS |
| `DatagramService` | what a datagram's user may expect | abstract specification |
| `Datagram` | fragmentation, video queue, loss, reassembly, expiry; implements `DatagramService` | state machine |
| `MCDatagram`, `DatagramProofs` | instances; proofs | TLC, TLAPS |
| `PhyCoding` | lengths, symbol counts and bit orders of an OFDM frame on both sides | functions, used by `PhyRx` |
| `PhyRx` | the streaming receiver and the two ways the front end feeds it | state machine |
| `MCPhyRx`, `PhyRxProofs` | instances; type correctness, completeness of the loopback, order | TLC, TLAPS |
| `QueueLemmas` | sequences used as FIFO queues: membership, order, concatenation, number of copies | lemmas |
| `Presence` | what a node list promises | abstract specification |
| `Registry` | `NodeRegistry`, as functions of its dictionary | used by `Daemon` |
| `Daemon` | the daemons of several nodes and their radio managers; implements `Presence` | state machine |
| `VideoTx` | start, stop and the bitrate threads of `VideoTX` | state machine |
| `VideoStream` | video packets from `_fragment_and_send` to `VideoRX.on_rx` | state machine |
| `FrontEnd` | the two bands of `DualBandRadio` over one TX buffer | state machine |
| `KeyStore` | `NodeCrypto` with its files, crashes, peers and frames | state machine |
| `MCLink` | `Datagram` and `PhyRx` in one run | TLC |
| `MCNode` | `TxQueue`, `Daemon` and these four in one run | TLC |
| `MCDaemon` | an instance of `Daemon` alone | TLC |
| `DaemonProofs`, `VideoRadioProofs`, `KeyStoreProofs` | proofs: `Daemon`; `VideoTx`, `VideoStream` and `FrontEnd`; `KeyStore` | TLAPS |

**Grain of atomicity.** CPython switches threads at function calls and loop
heads, not between any two bytecodes. So `if self._pending and frame.seq ==
self._pending.seq: self._pending = None` is one step, the body of `_next_seq`
is one step, and there is a gap around each `Event.clear`, `Event.wait`,
`Event.set`, `Queue.put`, `get_nowait`. An action is the code between two gaps.

### MacArq

`pc[c]` is the statement of `send_reliable` a caller is about to execute:

| pc | line | action |
|---|---|---|
| idle | 377-384 | `Call` makes the frame and takes its number |
| arm | 386 | `Arm` |
| clear | 387 | `ClearEvt` |
| put | 389 | `PutData`, blocks while the queue is full |
| enter | 391 | `EnterWait`: the flag is up, or the caller becomes a waiter |
| waiting | 391 | `Timeout`, or released by `RxSet` |
| woken | 392-393 | `ReturnTrue` |
| giveUp | 396-398 | `ReturnFalse` |

`TxControl`, `TxVideo`, `TxData`, `TxMiss` are the worker's scan (`txPos` is
the queue it looks at); it takes, encodes and sends a frame in one step, as no
other thread sees what is in between. `RxAreq`/`RxDeliver`, `RxAck`/`RxNack`
and `RxSet`, `RxProbe`, `RxIgnore` are the branches of `_handle_rx`, cut where
the handler makes a call another thread can observe. The radio (`Transmit`)
delivers a frame to any subset of the receivers in range, in order: loss is
free, reordering and duplication by the radio do not exist on a single channel.
A payload is only its length class (`SizeOf`): it fits; or it fits the MAC's
16-bit length but not the PHY's 14-bit one and nobody can decode it; or it does
not fit and `encode` raises, which ends the worker. `Foreign` stands for another
implementation of the frame format: NACK and PROBE have handlers here, but no
code sends them. Frames carry a field `msg` for the properties only; no guard
of a code action reads it. The history variables (`owner`, `accepted`,
`acked`, `heard`, `ackedInTime`, `delivered`, `wakeups`) are never read by one either.

One abstraction concerns time: `Fresh` lets a call start only if its number is
not still in use. The counter has 65,536 values and a frame is under way for
less than a second.

### TxQueue

Producers: `Put` (enqueue), then `SetEvent`; or `Drop` when a non-blocking
put finds the queue full. The consumer: `Take`, `Miss` per queue, `Wake` or
`Poll` for the end of the 5 ms wait, `ClearEvent`, `Expire` when `get` has used
up its timeout and the worker calls it again. `MacArq` and `Datagram` use the
queues at a coarser grain (a bounded sequence per class, no Event); `TxQueue`
shows that this is what they are: `FifoPerClass` and `EveryItemTaken`.

### Datagram

`Begin` is `fragment(payload, self._frag_id)`, `AdvanceId` the next line,
`PutFragment` a turn of the loop. Between the first two another thread may
read the same number. `Transmit`, `Lose` and `Tick` are the environment. One
receiver is modelled, since receivers share nothing. `RxSingle` and
`RxFragment` are `ReassemblyBuffer.add`, the refresh of the entry's time
before `_expire` and the `KeyError` of the join included (`rxAlive`). A
fragment is a record (id, index, total, message); a payload is the sequence of
messages its pieces come from.

A message gets the number the counter stands at, whatever is under way or held
with it: by another node, whose counter runs alike, by another thread of the
node, or by the same thread a round of the counter ago. The history variable
`shared` collects the messages for which this happened, at the moment it
happens (`Rivals`): those under way or held with the number, and the new one. A message of
the same thread less than `IdMod` messages ago is not counted among the rivals: a
counter that is advanced cannot do that. `early` is the part of `shared` where the other
message was still moving, or held for no more than `max_age_s`. No code action reads either.

### PhyRx

A sample is its position in the stream. `_buf` is the interval `lo..hi-1`, a
frame an interval of `tx_frame`'s length, and every slice of `_buf` an
assignment to `lo`. An action is one turn of the loop in `push`: `HuntShort`,
`HuntNothing`, `HuntPartial`, `HuntInvalid` and `DataShort` break, `HuntLock`,
`HuntMisread` and `Decode` go on. `sim` is `_sim_mode`: in simulation the front
end pushes each frame whole (`PushFrame`), from hardware come chunks
(`PushChunk`) of a stream in which frames lie anywhere (`Send`).

What stands for the signal processing: an STF is detected by the windows that
begin 3 before it to 128 within it, the first of which may be any of the first
four; a start found within 6 samples is corrected by the LTF correlation. Its header is
read right in the loopback and on a clean channel (`HeaderSafe`); where the air may
damage it (`Damage`) it may also be invalid or say anything (`MisreadSyms`), as the
SIGNAL field has no checksum. Any other start is settled anywhere within 6 samples,
and what is read there is invalid or says anything. Over the air noise may
pass the threshold (`NoiseAt`); in the loopback, at 30 dB above the noise, it
does not. `taken` has the frames of which the decoder got every bit, in the
encoder's order; whether the CRC then matches is not in the model, nor is the phase by which
the receiver turns the symbols (981-993).

`PhyCoding` computes what `PhyRx` compares: `TxSyms` from the bits that
puncturing keeps, `RxSyms` from the closed form of `_calc_n_enc`, and the two
interleaver permutations position by position (`RestoredMcs`).

### Registry, Presence and Daemon

A time stamp is an age in ticks that stops at `Old`, from where no comparison
of the code tells it from "never". Every registry method holds the lock, so it is a
function of the dictionary - but `remove_stale` reads the clock first:
`CleanupReads` and `CleanupSweeps` are two steps, with `lag` ticks between them.

`phase[d]` is how far `main` of node d has come, `mode[d]` the radio manager's
mode. `StartWifi`, `StartLionmesh` and `Fallback` are the outcomes of
`RadioManager.start`; the MAC layer that a failed start leaves behind is not
state here: `send` and `status` ask for the mode first, and no thread feeds what is left,
because `radio.start`, which starts the radio's threads, was not passed.
`Launch` is the rest of `main`; `Stop` a signal or a crash at any point. `beat` is the
heartbeat thread: `Beat` in wifi mode, `BeatDies` where `status` raises. A
configured mode other than the two known ones starts the socket and sends
nothing. `OnDataRx` and `OnLoraRx` are the receive callbacks, `GpsUpdate` a turn
of the GPS loop. Heartbeats are lost or arrive within a tick; the wait for the
lock is bounded by `MaxLag`. One registry is modelled, that of `Me`: registries
meet only through what the nodes send.

`Presence` knows ids and the time since each was heard: it may forget only
those silent for more than `MaxAge`. The mapping takes an entry to the smaller
of its two ages.

### VideoTx and VideoStream

Each `start_gstreamer` makes a pipeline and a bitrate thread, numbered alike;
`_pipe` and `_encoder` are the last ones. `abr[p]` is the statement of a
thread (`sleep`, before `set_state`, before `set_bitrate`) with the scheme it
read. `stop` sets the flag and the pipeline's state and waits for no thread, so a
thread can set PLAYING on a pipeline just stopped. `VideoTX` follows the MAC
only if it is given `get_mcs_fn`; without one (`linkMcs` = `NoMcs`, one of the initial
states) no thread is started. The daemon passes none (main.py:238-244), although
README.md:207 has the adaptive bitrate among the features: `VideoTx` models the
class as its parameters allow it.

`VideoStream` has the numbers: `Pack` (`rtp_pack` with `_seq`), `SendPacket`
(the number advances, the datagram is sent or dropped; the radio may lose it
but keeps the order), `OnRx` with the loop that empties the buffer from
`_next_seq` on, and the stale filter as it is written.

### FrontEnd

The band a frame was meant for is kept with it to state properties; the code
keeps no such thing: samples leave on the band the radio is tuned to when
`writeStream` runs (`WriteStream`, one unit of air time). `Tx863`/`Refuse863`
are `tx_863` with its window and account, `Tx2400` retunes and queues without an
account, `Transmit` drops a frame if the buffer is full. `StopFront` is
final, as it closes the streams and nothing opens them again.

### KeyStore

A file is absent, holds a key, or is `Torn`, without a key in it: opened for writing
and not written yet, or written with bytes that are none (`SaveInvalid`: `save_peer`
writes before `add_peer` looks at them). `write_bytes` does both, one after the other, so a process may end
between them (`EndProcess` is enabled at every point). `pc` is where
`load_or_generate` is. A torn private file makes `Load` impossible: the code
raises on this and on every later start. A peer file that holds no key is
passed over. `Publish` is how a public key gets out: from a running node or from
its file. Ciphers open with the right key and with no other; that is what the
self-test asserts on a single pair (crypto.py:404-440), and `KeyStore` asks it of
nodes that crash, restart and exchange keys. Nothing in the daemon or in the MAC layer
creates a `NodeCrypto` yet.

### MCLink and MCNode

`Datagram` and `PhyRx` share no variable, nor do `TxQueue`, `Daemon`, `VideoTx`,
`VideoStream`, `FrontEnd` and `KeyStore`. `MCLink` checks the former in one run,
`MCNode` the latter: the initial state chooses a `part`, only that part moves, and
the properties of the others hold where they stand. So the state space is the
sum of the parts, not the product, and no behaviour of a part is left out.

## 3. The runs

| run | instance | shows |
|---|---|---|
| `arq_pair` | 2 nodes, 1 caller, 2 calls of 2 attempts, sequence numbers modulo 2, control queue of 1 | `TypeOK`, `AckTruthful`, `SuccessBudget`, `DeliveryBound`, `InOrder`, implements `ArqService`; `CallReturns` under fairness |
| `arq_shared` | 2 callers on one node, 1 attempt, a foreign frame, a datagram, a payload too long for the PHY | `AckTruthful` with shared `_pending` |
| `arq_false_success` | as `arq_pair`, 1 attempt | counterexample to `SuccessMeansAccepted` |
| `arq_lost_ack` | 1 call of 2 attempts | counterexample to `NoLostAck` |
| `link` | datagrams, 2 numbers, queue of 2: 1 sender with 3 messages of 0 to 3 fragments, or 2 nodes with 2 messages and 1, of 0 to 2 fragments; receiver, 2 frames: loopback of every scheme with 0, 20, 101 bytes; air with 2 chunks of 600 and 1500 samples, noise 40 samples into the buffer, damaged headers, misread headers of 1 and 60 symbols | `TypeOK`, `IntactUnlessShared`, `LivesUnlessShared`, implements `DatagramService`; `PhyTypeOK`, `LoopbackComplete`, `OrderedOnce`, and `PushReturns` under fairness |
| `datagram_stale` | the one sender of `link` | counterexample to `StaleDiscarded` |
| `datagram_two_nodes` | 2 nodes, 1 message each of 0 to 3 fragments | counterexample to `Intact` |
| `phy_stream` | a silent, noiseless stream in chunks of 600 and 4096 | counterexample to `NoneSkipped` |
| `node` | 3 producers (one per class) of 3 items, queues of 2, 1, 1; 2 daemons; 2 starts of the video, 3 schemes; 10 packets; 4 calls of the front end; 2 key owners (below) | `QueueTypeOK`, `NoLostWakeup`, `FifoPerClass`, `OneFrameAhead`, `DaemonTypeOK`, `OnlineMeansRan`, `ImplementsPresence`, `VideoTxTypeOK`, `RateSettled`, `StreamTypeOK`, `PlayedInOrder`, `HeldBounded`, `FrontTypeOK`, `AirtimeBacked`, `KeyTypeOK`, `IdentityKept`, `ReadableByAddressee`; `EveryItemTaken`, `SilentForgotten` and `RateFollows` under fairness |
| `heartbeat` | 1 daemon | counterexample to `HeartbeatAlive` |
| `video_loss` | the video stream, 3 packets | counterexample to `NothingDiscarded` |
| `duty_cycle` | the front end, 4 calls | counterexample to `DutyCycle` |

The bounds. Two attempts are enough for a late ACK, an ACK of a
retransmission and an ACK lost; two calls for an event or a frame of one to
meet the next; numbers modulo 2 wrap within the run. Queues of one or two
places are full often. Three messages with two numbers make the counter come round while
pieces of the first message are under way, held, or held too long; two nodes with three
messages of up to 2 fragments share every number, as whole and as fragmented messages.
With messages of up to 3 fragments on two nodes (`datagram_two_nodes`) different totals meet in one entry.
In the receiver's part two frames make the tail that one push leaves meet the next push,
the payloads end at different places in their last symbol, and chunks of 600
and 1500 samples cut a frame of 720 in its header and in its data and make the
search window of 800 end before the buffer does. Larger chunks only add
positions; `phy_stream` has the 4096 of the configuration.

`node`: with `OnlineAge` = `MaxAge` = `MaxLag` = 1 an entry passes "online", "kept",
"stale while the sweep waits" and "gone" within three ticks. The peer's LoRa id is
its `node_id`, so that both planes meet in one entry. Schemes 0, 1 and 2 have 0,
150 and 300 kbps: one pauses the video, and steps of 150 and of 300 are both
above the 100 that counts. Ten packets go more than twice round numbers modulo 4, and a
stale window of 1 leaves both stale and fresh numbers. In the front end a
budget of 2 is used up by one long frame or two short ones, four calls fill the
buffer of 2 and reach a second window. Two key pairs let each owner have one, or
one owner a second one if that were possible; one frame is enough since
`ReadableByAddressee` is about one frame at a time.

Runs that end because their calls or messages are used up do not deadlock: the
TX worker polls, and time goes on (`Tick`); `PhyRx` does stop, when all frames
and chunks are used up, and `link` and `phy_stream` say so. So do `node`, `heartbeat`, `video_loss`
and `duty_cycle`: packets, calls and keys are bounded, a node with a torn private key
never starts again.

What the properties say, and what they would catch:

* `AckTruthful` - only numbers are compared and the ACK's source is not looked
  at; still a match means that a node took *this* call.
* `SuccessBudget` - the code can return True without reason (below), but not
  more often than the receive thread decided to wake somebody: the `clear()`
  of each attempt takes old flags back.
* `DeliveryBound`, `InOrder` - there is no duplicate filter; the retry loop and
  the FIFO queues still bound copies and keep the calls in order.
* `ImplementsService` - both at once, and nothing handed over that no call sent:
  `ArqService` has only the calls made and what each node was handed.
* `NoLostWakeup` - holds because the consumer clears after the wait and
  scans after the clear. The 5 ms poll would hide a mistake here in any test.
* `OneFrameAhead` - "control frames always jump ahead" (427) is true up to
  one frame, because the scan is not atomic.
* `IntactUnlessShared`, `LivesUnlessShared` - the receiver looks at number, index and
  total only, an entry keeps the total of its first fragment and lives on as
  long as anything refreshes it. Still a payload that is not one message as it was sent
  has a piece of a message that shared its number with another one, and the `KeyError` of the join,
  which would silence the node for good, takes a shared number too. A counter not advanced, a
  message taken for complete too early or a piece stored under the wrong number breaks them.
* Datagram's `ImplementsService` - of the messages that are not garbled so: each once at most,
  and those of a thread in order, though entries stay, expire and are joined late.

* `LoopbackComplete` - a symbol counted differently on the two sides, or a
  sample too many left behind, shifts every later frame.
* `OrderedOnce`, `PushReturns` - with false preambles and misread headers `lo`
  jumps; still no frame is decoded twice and each turn of the loop consumes
  samples or breaks.

* `OnlineMeansRan` - heartbeats arrive late, from a process that has stopped or come
  back in another mode; packets by LoRa write the same entry. Still "online" on the data
  plane is never shown for a node that did not run shortly before.
* `ImplementsPresence` - an update that comes between the clock and the lock of
  `remove_stale` is not undone; each plane alone keeps an entry.
* `SilentForgotten` - an entry has no other way out than the cleanup thread.
* `RateSettled`, `RateFollows` - the thread reads the scheme, notes it, and acts
  later; what it noted decides whether it acts again. Stated for a video started once:
  a second start (routes and configuration both can) finds `_current_mcs` and
  `_kbps` of the first, two threads and a pipeline nobody can stop.
* `PlayedInOrder` - what the reordering buffer keeps across a turn of the numbers
  never comes out. Stated for one sender: with two, a packet packed can wait
  for a turn of the other's packets before it is sent.
* `HeldBounded` - nothing but the stale filter takes out of the buffer what is never
  expected again; over any number of turns and losses it keeps it to its window.
* `AirtimeBacked` - the 863 MHz account covers every frame meant for that band, though
  frames wait, get dropped and are sent windows later.
* `IdentityKept` - the order "private file, public file, return" means that nobody can be
  given a key that the next start does not have.
* `ReadableByAddressee` - also with torn peer files and peers added twice.

### Findings

* **False success** (`arq_false_success`): `_ack_evt.set()` at 463 can come
  after the call it belongs to has given up; the next call takes it.
* **Lost ACK** (`arq_lost_ack`): an ACK handled between 386 and 387, `set()` included, is
  forgotten. `NoLostAck` counts an ACK only if one and the same attempt had armed
  `_pending` before the match and had not timed out at the `set()`; a `set()` that is
  late for the timeout is not held against the code. With the two lines swapped
  the property holds in the same instance.
* **Mixed messages** (`datagram_two_nodes`): reassembly is keyed by `frag_id`
  alone, which is unique per sender only (doc: 131).
* **Old pieces joined** (`datagram_stale`): `_expire` runs only when a multi-fragment frame
  arrives (197), after the entry of that frame has been refreshed (194). One sender is enough: an
  incomplete message older than `max_age_s` is completed with the next message that has
  its number (doc: 162). With the code's 65,536 numbers this takes a round of
  messages none of whose multi-fragment frames arrives while the entry is old.
* **Unsearched samples dropped** (`phy_stream`): when the first 800 samples
  hold no preamble, the rest of the 4096-sample chunk goes with them
  (1008-1016), frames included.
* **Duty cycle** (`duty_cycle`): `tx_863` retunes at once (xtrx_radio.py:283) while
  2.4 GHz frames wait in the buffer; they leave on 863 MHz, uncounted, and exceed
  the 36 ms of 250-251.
* **No heartbeat in lionmesh mode** (`heartbeat`): `status` reads a key
  that `get_status` does not have (radio.py:107), outside the loop's `try`
  (main.py:133), and the thread ends at its first turn (doc: main.py:128).
* **One lost video packet** (`video_loss`): the stale filter (video_pipe.py:345-346)
  measures backwards, so every packet ahead of the missing one is 65,535 or so behind it, and
  deleted instead of kept. As `_next_seq` moves only over packets that are there, the
  stream stands still until the numbers come round.

Seen while modelling, without a run of their own:

* With two totals in one entry the count of fragments fits, the join (200) raises `KeyError`,
  and nothing catches it on the receive thread: TLC finds this against `ReceiverLives` with the
  constants of `datagram_two_nodes`. `LivesUnlessShared` and `ReceiverSurvives` say when it cannot happen.
* The transmitter turns the pilots of symbol i by a quarter turn times i (phy_ofdm.py:765); the
  receiver takes this for a frequency offset (984-993) and turns the symbols after the second by it,
  and those of later frames. The phase is not state of `PhyRx`.
* A node killed between opening and writing its private key never starts again
  (crypto.py:155, `Load` and `Torn`); a missing public file is never written again.

### Fairness

`FairSpec` of `MacArq`: weak fairness of every caller inside `send_reliable`,
of the TX worker and of the receive thread. Python schedules every runnable
thread; a wait ends by its timeout. Nothing is assumed of the radio, of
`Call`, of datagrams. Both `CallReturns` and `EveryItemTaken` rest on
finite traffic of the higher classes, since the code starves data otherwise:
the bounds on calls and items provide that. `PhySpec`, and `LinkSpec` of `MCLink` for the receiver's part: weak fairness of
`Receive`, the loop of `push` on a thread that is not blocked. `Spec` of
`MCNode`: weak fairness of the consumer of the queues, which also covers the end of its 5 ms wait,
of the launch of node `Me` once its radio has started, of
its cleanup thread and of each bitrate thread. The last ones only sleep for a
fixed time and wait for a lock that is held for a few statements. Nothing is
assumed of the heartbeat thread, of the environment, of starts and stops.

## 4. The proofs

All hold for every value of the constants under the named assumptions of the
modules (`AmcAssumption`, `MacAssumption`, `FrameAssumption`,
`QueueAssumption`, `DatagramAssumption`, `EntryAssumption`, `PhyAssumption`,
`RegistryAssumption`, `DaemonAssumption`, `VideoTxAssumption`, `VideoStreamAssumption`,
`FrontEndAssumption`, `KeyStoreAssumption`), which TLC evaluates in each run. The callers
of `MacArq` are threads and so a finite set (in `MacAssumption`): without this the
cardinality in `SuccessBudget` means nothing.

| theorem | says | argument |
|---|---|---|
| `MacArqProofs!TypeCorrect` | `Spec => []TypeOK` | one step per action |
| `MacArqProofs!AckIsTruthful` | `Spec => []AckTruthful` | below |
| `MacArqProofs!DeliveryIsBounded` | `Spec => []DeliveryBound` | below |
| `MacArqProofs!DeliveryIsInOrder` | `Spec => []InOrder` | below |
| `MacArqProofs!SuccessIsBudgeted` | `Spec => []SuccessBudget` | below |
| `MacArqProofs!ArqImplementsService` | `Spec => ImplementsService` | below |
| `TxQueueProofs!TypeCorrect`, `EveryClassIsFifo` | `[]QueueTypeOK`, `[]FifoPerClass` | `t \o Append(q, x) = Append(t \o q, x)` |
| `TxQueueProofs!WakeupNotLost` | `[]NoLostWakeup` | strengthened: what the scan has passed is empty, or the flag is up, or a producer is about to raise it |
| `TxQueueProofs!AtMostOneAhead` | `[]OneFrameAhead` | strengthened: a frame that has been overtaken is ahead of the scan |
| `DatagramProofs!TypeCorrect` | `[]TypeOK` | one step per action |
| `DatagramProofs!PayloadIntact`, `ReceiverSurvives` | `Spec => []IntactUnlessShared`, `Spec => []LivesUnlessShared` | below |
| `DatagramProofs!FirstTurn` | one thread, `MsgLimit <= IdMod`: `Spec => [](Intact /\ ReceiverLives)` | below |
| `DatagramProofs!DatagramImplementsService` | `Spec => ImplementsService` | below |
| `PhyRxProofs!TypeCorrect` | `PhySpec => []PhyTypeOK` | one step per action; `FoundBounds`, `SymsNat` |
| `PhyRxProofs!LoopbackIsComplete` | `Agree => (PhySpec => []LoopbackComplete)` | below |
| `PhyRxProofs!DecodedInOrderOnce` | `PhySpec => []OrderedOnce` | below |
| `DaemonProofs!DaemonTypeCorrect` | `DaemonSpec => []DaemonTypeOK` | one step per action |
| `DaemonProofs!OnlineMeansItRan` | `[]OnlineMeansRan` | below |
| `DaemonProofs!RegistryIsPresence` | `DaemonSpec => ImplementsPresence` | below |
| `VideoRadioProofs!VideoTxTypeCorrect`, `RateIsSettled` | `[]VideoTxTypeOK`, `[]RateSettled` | below |
| `VideoRadioProofs!StreamTypeCorrect` | `StreamSpec => []StreamTypeOK` | with `HeldInv`, below |
| `VideoRadioProofs!HeldIsBounded` | `StreamSpec => []HeldBounded` | below |
| `VideoRadioProofs!OneStreamInOrder` | `OneStream => (StreamSpec => []PlayedInOrder)` | below |
| `VideoRadioProofs!FrontTypeCorrect`, `AirtimeIsBacked` | `[]FrontTypeOK`, `[]AirtimeBacked` | below |
| `KeyStoreProofs!KeyTypeCorrect` | `KeySpec => []KeyTypeOK` | one step per action |
| `KeyStoreProofs!KeyIdentityKept`, `OnlyAddresseeReads` | `[]IdentityKept`, `[]ReadableByAddressee` | below |

*AckIsTruthful.* `AckTruthful` is not inductive: the match compares numbers,
not calls. The invariant adds that `owner[n][s]` names the call every frame,
queued ACK and pending frame with number `s` of node `n` belongs to (this is
where `Fresh` is used: a number changes its owner only when nothing with it is
left), and that every ACK on its way is for an accepted call.

*DeliveryIsBounded, DeliveryIsInOrder.* Both follow a payload on its way: data queue,
inbox, receive thread, `on_rx`. `PathInv` says what the rest of the node contributes (a
caller's frame names its current call, a data queue has only requests of its own
node's callers, a payload is in hand only until `on_rx`); with it `PathSteps` classifies
every step of the model as one that puts, sends, takes, drops or hands over a request, or
leaves the way alone, so that each of the two proofs is over these few. `BudgetInv`
counts: the copies of a call a node has or may still get (`Under`) are at most the
requests its caller has put into the queue (`PutsOf`); `CountIn` and its lemmas
count in a queue. `OrderInv` orders: what a node has been handed comes before what it has
in hand, this before its inbox, this before every data queue, inbox and data queues are
sorted, and nothing on the way is newer than its caller's last call.

*SuccessIsBudgeted.* `TokenInv`: on a node with one caller, successes returned, plus the
`set()` about to run, plus the flag the caller has not cleared yet or the caller
it has woken, are at most the matched answers. The flag between `clear()` and the wait of
the same attempt counts, one that the next `clear()` takes back does not.

*ArqImplementsService.* A refinement proof: `Call` is the service's `Make`, `on_rx` with the
payload in hand its `Deliver`, whose three guards are `OrderInv` and `BudgetInv` at that
moment, and every other step a stutter.

*PayloadIntact, ReceiverSurvives.* For any nodes and threads. `FlightInv` and `EntryInv`: a
fragment under way, and a piece held, has the number of its message and an index
below its size; the entry's total is the message's unless the message is in `shared`.
`ShareInv`: of two messages that are under way or held with one number both are in `shared`.
`NumberInv` is why that is kept when a message begins: a thread that has its node to
itself numbers its messages by their place modulo `IdMod`, so that an earlier one with the
number is `IdMod` messages back at least, and what `Rival` leaves out cannot be met
(`OnlyRivals`, from `SameRemainder`). A complete entry without a piece in `shared` then has one message only
(two would share the number), with its total, at indices below it: all its pieces, each at
its place. That is both theorems.

*FirstTurn.* With one thread and no more messages than numbers `Rivals` is empty at each
`Begin`, so `shared` stays empty and the two theorems above say `Intact` and `ReceiverLives`.

*DatagramImplementsService.* A refinement proof: `Begin` is the service's `Send`, a step that hands
over a message its `Deliver`, one that hands over anything else its `Garble`, every
other step a stutter. Integrity alone does not rule out that a message comes twice or late.
`OrderInv` adds that the pieces of a thread under way lie in the order in which they were
cut (`LineInv`), behind the one the thread is about to put (`AheadInv`); that of a message held in
the buffer only later pieces than those held can still come (`HeldInv`); and that of a message
handed over, or of an earlier one of its thread, nothing comes any more (`DoneInv`). The
buffer needs all pieces, so the last to arrive leaves nothing of its message behind (`AllPastOver`).
`NotedInv`, that only messages begun are in `shared`, gives the guard of `Send`.

*LoopbackIsComplete.* `Agree` says of the payloads in use that both sides count
the same symbols, at least one, and that their schemes' bit orders are
restored. The invariant `LoopInv` says where the receiver is: done with the last
frame, before it, or in its symbols, and that all earlier frames lie behind the
buffer. Then the hunt finds the last frame and no other, inside its window,
with its header complete (`BeforeFacts`), and its symbols are all there
(`InsideFacts`). `Agree` itself needs an induction over the bits of a payload
and is left to TLC: `link` would violate `LoopbackComplete` for a payload that
breaks it.

*DecodedInOrderOnce.* The first sample of the buffer never moves back (`MovesOn`).
`PassedInv`: a frame that was read starts more than 128 samples before it, too early for
the hunt to find its STF again. `SpacedInv`: frames were sent one after the other, so a frame found later in the
buffer is a later frame. Nothing is assumed of the headers read.

*OnlineMeansItRan.* The invariant `RanInv` adds that the data age of an entry is at
least the time since its node ran in a mode that sends, and that a heartbeat on its way
was sent in this tick. Nothing that arrives later can then be newer than its sender's run.

*RegistryIsPresence.* A refinement proof: each update of either plane is a `Hear`
(`UpdateHears`), a sweep is a `Forget` of those whose silence exceeds `MaxAge` + lag
(`SweepForgets`), a tick a `Tick` (`AgedTicks`), the end of process `Me` a `Restart`,
and every other step a stutter. It needs only the types as an invariant.

*RateIsSettled.* `OneInv` says what the one thread has done at each of its
statements: the scheme it acts on is `_current_mcs`, `_kbps` is the encoder's rate, and
before `set_bitrate` the pipeline plays unless it has been stopped.
`ThreadInv` says that a thread belongs to a pipeline already started, and that there is a
scheme to read.

*StreamTypeCorrect, HeldIsBounded, OneStreamInOrder.* `HeldInv`: every packet held lies
behind the expected number, by `StaleWindow` at most. Its distance is a number from 1 to
`StaleWindow`, another one for each packet (`SameDistance`): an injection, which bounds the
buffer. Neither the expected number nor the next one is among the packets held: a packet
is played if it is the expected one when it arrives, and then alone (`RunIsShort`), and
`_buf` never gives anything back. This holds for any number of senders. `OneStream` says there
is one; then the numbers sent are the places in the order of packing modulo the sequence space, the
wire is sorted and ahead of the packet played last, and the expected number is the one
after that packet (`SenderInv`, `WireInv`, `PlayedInv`). The rest is arithmetic of
remainders (`ReducedSum`).

*AirtimeIsBacked.* `Covered`: what has been sent of the frames meant for 863 MHz, what is
left of such a frame on the air, those in the buffer, and the rest of the running
window's budget fit in the budgets of the windows begun. The sum over the buffer
is a function that the invariant only says to exist, one value per place, each the
charge of the frame there plus the value behind it (`IsBacklog`): an append adds
to all its values (`BacklogAppend`), a removal takes the first away
(`BacklogTail`), and no induction is needed.

*KeyIdentityKept.* `OwnInv`: while `load_or_generate` is under way the private file holds,
or will hold, the key in memory; a public file that holds a key, a key
published and a key in memory of a ready node equal the private file, so a node whose
file is absent or torn has published nothing. `FreshInv`: two nodes never have the
same key, and keys not drawn yet are nobody's. `GivenInv`: whatever a node holds as
the key of a peer, in memory, on disk or half saved, was published by that peer. With
these, every frame carries its addressee's key, and nobody else opens it.

Only model-checked: the liveness properties `CallReturns`, `EveryItemTaken`, `PushReturns`,
`SilentForgotten` and `RateFollows` (fairness and `ENABLED` are out of the prover's reach),
and `Agree`, the hypothesis of `LoopbackIsComplete` (an induction over data). Every safety
property of a passing run is the subject of a theorem.

## 5. Not modelled, and why

Out of reach: the signal processing (floating point; what `PhyRx` assumes of it
is in section 2), the CRC, the ciphers, SoapySDR, GStreamer, HTTP.

Not modelled, although they could be:

* the splitting of a UDP byte stream into NAL units and the pipelines of `VideoRX`;
* `RadioManager.send_reliable` and `stop`: nothing in the daemon calls them;
* the reading routes of the API and the update of the configuration in memory: no
  thread reads what they write again;
* gain and a failing SoapySDR call in the front end; a `NodeCrypto` wired into the MAC;
* GPS, LoRa and batman adapters, web application, setup scripts: I/O without
  state of their own.

What could be proved next: what the two findings about `send_reliable` leave true (which
calls may return True without an acceptance, and when an ACK in time is not lost); that a
message of `Datagram` is garbled only while the other message is still held, not merely after it has
shared a number.
