------------------------------- MODULE PhyRx -------------------------------
(***************************************************************************)
(* OFDMReceiver of phy/phy_ofdm.py under the two front ends of             *)
(* phy/xtrx_radio.py.  A sample is its position in the stream, the buffer  *)
(* is the interval lo..hi-1 of received samples not yet dropped, and a     *)
(* push runs the HUNT/DATA loop until it breaks.  The simulated front end  *)
(* pushes each frame whole; the hardware pushes chunks, in which frames    *)
(* lie anywhere and noise may look like a preamble.                        *)
(***************************************************************************)
EXTENDS PhyCoding

CONSTANTS
    LoopPayloads, \* the frames the simulation sends, as [mcs, len] records
    AirPayloads,  \* and those that are sent over the air
    Gaps,         \* silences before a frame on the air, in samples
    ChunkSizes,   \* samples one readStream returns
    NoiseAt,      \* offsets in the buffer where noise passes the threshold
    MisreadSyms,  \* symbol counts of a SIGNAL field read wrong
    Damage,       \* the air may damage the header of a frame
    MaxFrames,    \* bound: frames sent
    MaxChunks     \* bound: chunks read from the hardware

ASSUME PhyAssumption ==
    /\ LoopPayloads \cup AirPayloads \subseteq [mcs : Mcs, len : 0..(LenMod - 1)]
    /\ Gaps \subseteq Nat /\ NoiseAt \subseteq Nat
    /\ ChunkSizes \subseteq Nat \ {0} /\ MisreadSyms \subseteq Nat \ {0}
    /\ Damage \in BOOLEAN
    /\ MaxFrames \in Nat /\ MaxChunks \in Nat

VARIABLES
    sim,      \* _sim_mode of the front end
    frames,   \* the frames sent, with their first sample
    hi,       \* samples received so far
    lo,       \* the first sample in _buf
    busy,     \* push() is running
    state,    \* _state
    need,     \* _n_syms * SYM_LEN
    cur,      \* the frame whose SIGNAL was read, 0 if it was misread
    taken,    \* the frames whose own symbols, all of them, were decoded
    chunks    \* chunks read

phyVars == <<sim, frames, hi, lo, busy, state, need, cur, taken, chunks>>

SymLen == 80
Head0 == 160 + 160 + SymLen     \* STF, LTF and SIGNAL
FrameLen(f) == Head0 + SymLen * TxSyms(f.mcs, f.len) + SymLen
End(k) == IF k = 0 THEN 0 ELSE frames[k].start + FrameLen(frames[k])

PhyInit ==
    /\ sim \in BOOLEAN
    /\ frames = <<>>
    /\ hi = 0 /\ lo = 0
    /\ busy = FALSE /\ state = "HUNT"
    /\ need = 0 /\ cur = 0
    /\ taken = <<>>
    /\ chunks = 0

bufVars == <<lo, state, need, cur, taken>>

-----------------------------------------------------------------------------
(* The front ends *)

Sent(p, s) == Append(frames, [start |-> s, mcs |-> p.mcs, len |-> p.len])

\* The simulation hands every frame to the receiver, with 30 dB noise.
PushFrame(p) ==
    /\ sim /\ ~busy
    /\ Len(frames) < MaxFrames
    /\ frames' = Sent(p, hi)
    /\ hi' = hi + FrameLen(p)
    /\ busy' = TRUE
    /\ UNCHANGED <<bufVars, sim, chunks>>

\* A frame goes on the air, after all that was received or sent.
Send(p, gap) ==
    /\ ~sim
    /\ Len(frames) < MaxFrames
    /\ LET e == End(Len(frames))
       IN  frames' = Sent(p, gap + IF e > hi THEN e ELSE hi)
    /\ UNCHANGED <<bufVars, sim, hi, busy, chunks>>

PushChunk(n) ==
    /\ ~sim /\ ~busy
    /\ chunks < MaxChunks
    /\ chunks' = chunks + 1
    /\ hi' = hi + n
    /\ busy' = TRUE
    /\ UNCHANGED <<bufVars, sim, frames>>

-----------------------------------------------------------------------------
(* HUNT *)

\* The correlation is searched at lo..lo+Search-1.
Search == IF hi - lo - 480 < 800 THEN hi - lo - 480 ELSE 800
Hunting == busy /\ state = "HUNT"

Break == busy' = FALSE /\ UNCHANGED <<sim, frames, hi, chunks>>
Stay == UNCHANGED <<sim, frames, hi, chunks, busy>>

\* A window within the first 128 samples of an STF correlates, and so do the
\* three that begin just before it, or some of them.
Ahead == {k \in DOMAIN frames : lo <= frames[k].start + 128}
First == CHOOSE k \in Ahead : \A j \in Ahead : k <= j
Onsets == IF Ahead = {} THEN {hi}
          ELSE {IF i > lo THEN i ELSE lo :
                  i \in (frames[First].start - 3)..frames[First].start}
Alarms == IF sim THEN {}
          ELSE {lo + d : d \in {x \in NoiseAt : \A i \in Onsets : lo + x < i}}

\* The index _find_stf_start may return, plus the correction of 3.
Found == {i + 3 : i \in {i \in Onsets \cup Alarms : i < lo + Search}}

\* LTF correlation settles within 6 samples, on the frame if one is there.
Aligned(s) == /\ Ahead # {}
              /\ s >= frames[First].start - 6
              /\ s <= frames[First].start + 6

HuntShort ==
    /\ Hunting
    /\ Search < 32
    /\ Break
    /\ UNCHANGED bufVars

HuntNothing ==
    /\ Hunting
    /\ Search >= 32
    /\ \E i \in Onsets : i >= lo + Search
    /\ lo' = hi - 31
    /\ Break
    /\ UNCHANGED <<state, need, cur, taken>>

\* The header of an aligned frame is read right, unless the air damages it.
HeaderSafe(s) == Aligned(s) /\ (sim \/ ~Damage)

HuntStep(s) ==
    /\ Hunting
    /\ Search >= 32
    /\ s \in Found

\* Where the fine timing puts the start of the frame it sees at s.
Settled(s) == IF Aligned(s) THEN {frames[First].start} ELSE (s - 6)..(s + 6)
Reach(t) == t + Head0 + SymLen

\* The header has not all arrived: keep the samples from the STF on.
HuntPartial(s) ==
    /\ HuntStep(s)
    /\ \E t \in Settled(s) : Reach(t) > hi
    /\ lo' = s
    /\ Break
    /\ UNCHANGED <<state, need, cur, taken>>

\* parse_signal_sym finds no rate: one sample on, at the next push.
HuntInvalid(s) ==
    /\ HuntStep(s)
    /\ ~HeaderSafe(s)
    /\ \E t \in Settled(s) : Reach(t) <= hi
    /\ lo' = s + 1
    /\ Break
    /\ UNCHANGED <<state, need, cur, taken>>

\* SIGNAL has no check that noise or damage fails: any rate and length.
HuntMisread(s, n) ==
    /\ HuntStep(s)
    /\ ~HeaderSafe(s)
    /\ \E t \in Settled(s) : Reach(t) <= hi /\ lo' = t + Head0
    /\ state' = "DATA"
    /\ need' = SymLen * n
    /\ cur' = 0
    /\ Stay
    /\ UNCHANGED taken

HuntLock(s) ==
    /\ HuntStep(s)
    /\ Aligned(s)
    /\ LET f == frames[First]
       IN  /\ Reach(f.start) <= hi
           /\ lo' = f.start + Head0
           /\ need' = SymLen * RxSyms(f.mcs, f.len % LenMod)
    /\ state' = "DATA"
    /\ cur' = First
    /\ Stay
    /\ UNCHANGED taken

-----------------------------------------------------------------------------
(* DATA *)

\* Fault: without the break the loop waits for samples only a push can bring.
DataSpin ==
    /\ busy /\ state = "DATA"
    /\ hi - lo < need
    /\ UNCHANGED phyVars

\* The symbols have not all arrived.
DataShort ==
    /\ busy /\ state = "DATA"
    /\ hi - lo < need
    /\ Break
    /\ UNCHANGED bufVars

\* The decoder gets every bit of frame k, in the order of the encoder.
AllSymbols(k) ==
    /\ k # 0
    /\ RxSyms(frames[k].mcs, frames[k].len % LenMod) = TxSyms(frames[k].mcs, frames[k].len)
    /\ frames[k].mcs \in RestoredMcs

DecodeTo(next) ==
    /\ busy /\ state = "DATA"
    /\ taken' = IF AllSymbols(cur) THEN Append(taken, cur) ELSE taken
    /\ lo' = lo + need
    /\ state' = next
    /\ Stay
    /\ UNCHANGED <<need, cur>>

\* Faults: the count of samples is not checked; the state is not set back.
DecodeUnchecked == DecodeTo("HUNT")
DecodeAgain == hi - lo >= need /\ DecodeTo("DATA")

\* _decode_data, and what push does after it, whatever the CRC says.
Decode == hi - lo >= need /\ DecodeTo("HUNT")

-----------------------------------------------------------------------------
Receive ==
    \/ HuntShort \/ HuntNothing
    \/ \E s \in Found : \/ HuntPartial(s) \/ HuntInvalid(s) \/ HuntLock(s)
                        \/ \E n \in MisreadSyms : HuntMisread(s, n)
    \/ DataShort \/ Decode

FrontEnd ==
    \/ \E p \in LoopPayloads : PushFrame(p)
    \/ \E p \in AirPayloads, g \in Gaps : Send(p, g)
    \/ \E n \in ChunkSizes : PushChunk(n)

PhyNext == FrontEnd \/ Receive

\* push is a loop of the receive thread: it goes on while it has not broken.
PhySpec == PhyInit /\ [][PhyNext]_phyVars /\ WF_phyVars(Receive)

-----------------------------------------------------------------------------
\* The interval, the frame being read and the counters are in their ranges:
\* the slices of _buf never take more than there is.
PhyTypeOK ==
    /\ {sim, busy} \subseteq BOOLEAN
    /\ frames \in Seq([start : Nat, mcs : Mcs, len : 0..(LenMod - 1)])
    /\ hi \in Nat /\ lo \in 0..hi
    /\ state \in {"HUNT", "DATA"}
    /\ need \in Nat /\ need % SymLen = 0
    /\ cur \in 0..Len(frames)
    /\ taken \in Seq(1..Len(frames))
    /\ chunks \in 0..MaxChunks

\* Over the simulated front end, when a push returns every frame sent so far
\* was decoded from exactly its own symbols, in order, and only the tail
\* symbol of the last frame is left in the buffer.
LoopbackComplete ==
    sim /\ ~busy => /\ taken = [k \in DOMAIN frames |-> k]
                    /\ hi - lo <= SymLen

\* Whatever noise, chunks and misread headers do, no frame is decoded twice
\* and none after a later one.
OrderedOnce == \A i, j \in DOMAIN taken : i < j => taken[i] < taken[j]

\* Every call of push returns: each turn of its loop consumes samples or
\* breaks.
PushReturns == busy ~> ~busy

\* A frame on the air is not dropped from the buffer unread.
NoneSkipped ==
    \A k \in DOMAIN frames :
        lo > frames[k].start + 6 => cur = k \/ \E i \in DOMAIN taken : taken[i] = k
=============================================================================
