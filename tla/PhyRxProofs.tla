---------------------------- MODULE PhyRxProofs ----------------------------
(***************************************************************************)
(* Proofs about PhyRx, for any frames, gaps, chunks and noise: the buffer  *)
(* arithmetic stays in range, and the simulated front end loses no frame   *)
(* whenever transmitter and receiver count the same symbols.               *)
(***************************************************************************)
EXTENDS PhyRx, QueueLemmas, FiniteSetTheorems, WellFoundedInduction

\* The number of symbols is a number on both sides.
LEMMA SymsNat ==
    ASSUME NEW m \in Mcs, NEW n \in Nat
    PROVE  TxSyms(m, n) \in Nat /\ RxSyms(m, n) \in Nat
<1> DEFINE p == Rate[m + 1]
<1>1. m + 1 \in 1..7
  BY DEF Mcs
<1>2. Len(p) \in 1..6 /\ Cbps(m) \in 48..288
  BY <1>1 DEF Rate, Half, TwoThirds, ThreeQuarters, Cbps, ModOrder, Carriers
<1>3. InfoBits(n) \in Nat /\ EncodedBits(n) \in Nat
  BY DEF InfoBits, EncodedBits
<1>4. \A k \in Nat : Kept(p, k) \in Nat
  <2> SUFFICES ASSUME NEW k \in Nat PROVE Kept(p, k) \in Nat
    OBVIOUS
  <2>1. IsFiniteSet(0..(k - 1))
    BY FS_Interval
  <2>2. IsFiniteSet({i \in 0..(k - 1) : p[(i % Len(p)) + 1] = 1})
    BY <2>1, FS_Subset
  <2> QED
    BY <2>2, FS_CardinalityType DEF Kept
<1>5. \A k \in Nat : Ones(p, k) \in Nat
  <2> SUFFICES ASSUME NEW k \in Nat PROVE Ones(p, k) \in Nat
    OBVIOUS
  <2>1. IsFiniteSet(1..k)
    BY FS_Interval
  <2>2. IsFiniteSet({i \in 1..k : p[i] = 1})
    BY <2>1, FS_Subset
  <2> QED
    BY <2>2, FS_CardinalityType DEF Ones
<1> HIDE DEF p
<1>6. \A k \in Nat : SymbolsFor(m, k) \in Nat
  <2> SUFFICES ASSUME NEW k \in Nat PROVE SymbolsFor(m, k) \in Nat
    OBVIOUS
  <2>1. k + Cbps(m) - 1 \in Nat /\ Cbps(m) \in Nat \ {0}
    BY <1>2
  <2> QED
    BY <2>1 DEF SymbolsFor
<1>7. CalcEnc(m, n) \in Nat
  <2>1. /\ EncodedBits(n) \div Len(p) \in Nat /\ EncodedBits(n) % Len(p) \in Nat
        /\ Len(p) \in Nat
    <3>1. \A a \in Nat, b \in 1..6 : a \div b \in Nat /\ a % b \in Nat
      OBVIOUS
    <3>2. Len(p) \in Nat
      BY <1>2
    <3> QED
      BY <1>2, <1>3, <3>1, <3>2
  <2>2. Ones(p, Len(p)) \in Nat /\ Ones(p, EncodedBits(n) % Len(p)) \in Nat
    BY <1>5, <2>1
  <2>3. (EncodedBits(n) \div Len(p)) * Ones(p, Len(p)) \in Nat
    BY <2>1, <2>2
  <2> QED
    BY <2>2, <2>3 DEF CalcEnc, p
<1> QED
  BY <1>3, <1>4, <1>6, <1>7 DEF TxSyms, RxSyms, p

-----------------------------------------------------------------------------
Sample == [start : Nat, mcs : Mcs, len : 0..(LenMod - 1)]

\* What the fields of a frame are; its length fits the SIGNAL field.
LEMMA SampleFields ==
    ASSUME NEW f \in Sample
    PROVE  /\ f.start \in Nat /\ f.mcs \in Mcs /\ f.len \in Nat
           /\ f.len % LenMod = f.len
           /\ TxSyms(f.mcs, f.len) \in Nat /\ RxSyms(f.mcs, f.len) \in Nat
<1>1. f.start \in Nat /\ f.mcs \in Mcs /\ f.len \in 0..(LenMod - 1)
  BY DEF Sample
<1>2. \A n \in 0..(LenMod - 1) : n \in Nat /\ n % LenMod = n
  BY DEF LenMod
<1>3. f.len \in Nat /\ f.len % LenMod = f.len
  BY <1>1, <1>2
<1> QED
  BY <1>1, <1>3, SymsNat

\* First is one of the frames, and its STF is not all behind the buffer.
LEMMA FirstFrame ==
    ASSUME PhyTypeOK, Ahead # {}
    PROVE  /\ First \in DOMAIN frames
           /\ lo <= frames[First].start + 128
           /\ frames[First] \in Sample
<1>1. DOMAIN frames = 1..Len(frames) /\ Len(frames) \in Nat
  BY LenProperties DEF PhyTypeOK
<1>2. Ahead \subseteq Nat
  BY <1>1 DEF Ahead
<1>3. PICK k \in Ahead : \A j \in Ahead : ~(<<j, k>> \in OpToRel(<, Nat))
  BY <1>2, NatLessThanWellFounded, WFMin
<1>4. \A j \in Ahead : <<j, k>> \in Nat \X Nat /\ ~(j < k)
  BY <1>2, <1>3 DEF OpToRel
<1>5. ASSUME NEW j \in Ahead PROVE k <= j
  <2>1. j \in Nat /\ k \in Nat /\ ~(j < k)
    BY <1>2, <1>4
  <2> QED
    BY <2>1
<1>6. First \in Ahead
  BY <1>5 DEF First
<1>7. First \in DOMAIN frames /\ lo <= frames[First].start + 128
  BY <1>6 DEF Ahead
<1>8. frames[First] \in Sample
  BY <1>1, <1>7, ElementOfSeq DEF PhyTypeOK, Sample
<1> QED
  BY <1>7, <1>8

\* The fine timing moves a start by 6 samples at most.
LEMMA SettledNear ==
    ASSUME PhyTypeOK, NEW s \in Int, NEW t \in Settled(s)
    PROVE  t \in (s - 6)..(s + 6)
<1>1. CASE Aligned(s)
  <2>1. t = frames[First].start /\ t >= s - 6 /\ t <= s + 6
    <3>1. t = frames[First].start
      BY <1>1 DEF Settled
    <3>2. t \in Nat
      BY <1>1, <3>1, FirstFrame DEF Aligned, Sample
    <3> QED
      BY <1>1, <3>1, <3>2 DEF Aligned
  <2>2. t \in Nat
    BY <1>1, <2>1, FirstFrame DEF Aligned, Sample
  <2> QED
    BY <2>1, <2>2
<1>2. CASE ~Aligned(s)
  BY <1>2 DEF Settled
<1> QED
  BY <1>1, <1>2

\* Every index the hunt can return lies in the window it searches.
LEMMA FoundBounds ==
    ASSUME PhyTypeOK, Search >= 32, NEW s \in Found
    PROVE  s \in Int /\ s >= lo + 3 /\ s <= hi - 478 /\ hi - lo >= 512
<1>1. hi \in Nat /\ lo \in Nat /\ lo <= hi
  BY DEF PhyTypeOK
<1>2. Search \in Int /\ Search <= hi - lo - 480 /\ hi - lo >= 512
  BY <1>1 DEF Search
<1>3. PICK i \in Onsets \cup Alarms : i < lo + Search /\ s = i + 3
  BY DEF Found
<1>4. i \in Int /\ i >= lo
  <2>1. CASE i \in Alarms
    BY <1>1, <2>1, PhyAssumption DEF Alarms
  <2>2. CASE i \in Onsets /\ Ahead = {}
    BY <1>1, <2>2 DEF Onsets
  <2>3. CASE i \in Onsets /\ Ahead # {}
    <3>1. frames[First].start \in Nat
      BY <2>3, FirstFrame DEF Sample
    <3> QED
      BY <1>1, <2>3, <3>1 DEF Onsets
  <2> QED
    BY <1>3, <2>1, <2>2, <2>3
<1> QED
  BY <1>1, <1>2, <1>3, <1>4

LEMMA InitType == PhyInit => PhyTypeOK
<1> SUFFICES ASSUME PhyInit PROVE PhyTypeOK
  OBVIOUS
<1>1. 0 \in 0..MaxChunks /\ 0 % SymLen = 0 /\ 0 \in 0..0
  BY PhyAssumption DEF SymLen
<1>2. Len(frames) = 0 /\ frames \in Seq(Sample) /\ taken \in Seq(1..0)
  BY EmptySeq DEF PhyInit
<1> QED
  BY <1>1, <1>2 DEF PhyInit, PhyTypeOK, Sample

LEMMA SentType ==
    ASSUME PhyTypeOK, NEW p \in LoopPayloads \cup AirPayloads, NEW s \in Nat,
           frames' = Sent(p, s)
    PROVE  /\ frames' \in Seq(Sample) /\ Len(frames') = Len(frames) + 1
           /\ Len(frames) \in Nat
           /\ p.mcs \in Mcs /\ p.len \in Nat
<1>1. p.mcs \in Mcs /\ p.len \in 0..(LenMod - 1) /\ p.len \in Nat
  <2>1. p \in [mcs : Mcs, len : 0..(LenMod - 1)]
    BY PhyAssumption
  <2>2. p.mcs \in Mcs /\ p.len \in 0..(LenMod - 1)
    BY <2>1
  <2>3. LenMod \in Nat
    BY DEF LenMod
  <2>4. p.len \in Nat
    BY <2>2, <2>3
  <2> QED
    BY <2>2, <2>4
<1>2. [start |-> s, mcs |-> p.mcs, len |-> p.len] \in Sample
  BY <1>1 DEF Sample
<1> QED
  BY <1>1, <1>2, AppendFacts, LenProperties DEF Sent, PhyTypeOK, Sample

\* A frame of the stream ends after it begins.
LEMMA EndNat == PhyTypeOK => End(Len(frames)) \in Nat
<1> SUFFICES ASSUME PhyTypeOK, Len(frames) # 0 PROVE End(Len(frames)) \in Nat
  BY DEF End
<1> DEFINE f == frames[Len(frames)]
<1>1. Len(frames) \in 1..Len(frames)
  BY LenProperties DEF PhyTypeOK
<1>2. frames \in Seq(Sample)
  BY DEF PhyTypeOK, Sample
<1>3. f \in Sample
  BY <1>1, <1>2, ElementOfSeq
<1> HIDE DEF f
<1>4. f.start \in Nat /\ TxSyms(f.mcs, f.len) \in Nat
  BY <1>3, SampleFields
<1> QED
  BY <1>4 DEF End, FrameLen, SymLen, Head0, f

\* A sequence over a set is one over any larger set.
LEMMA WiderSeq ==
    ASSUME NEW S, NEW T, S \subseteq T, NEW q \in Seq(S)
    PROVE  q \in Seq(T)
<1>1. Len(q) \in Nat /\ q \in [1..Len(q) -> S]
  BY LenProperties
<1>2. q \in [1..Len(q) -> T]
  BY <1>1
<1> QED
  BY <1>1, <1>2, SeqDef

LEMMA NextType == PhyTypeOK /\ [PhyNext]_phyVars => PhyTypeOK'
<1> SUFFICES ASSUME PhyTypeOK, [PhyNext]_phyVars PROVE PhyTypeOK'
  OBVIOUS
<1> USE PhyAssumption
<1>0. /\ hi \in Nat /\ lo \in Nat /\ lo <= hi /\ need \in Nat
      /\ Len(frames) \in Nat /\ SymLen = 80 /\ Head0 = 400
  BY LenProperties DEF PhyTypeOK, SymLen, Head0
<1>1. ASSUME NEW p \in LoopPayloads, PushFrame(p) PROVE PhyTypeOK'
  <2>1. /\ frames' \in Seq(Sample) /\ Len(frames') = Len(frames) + 1
        /\ p.mcs \in Mcs /\ p.len \in Nat
    BY <1>0, <1>1, SentType DEF PushFrame
  <2>2. FrameLen(p) \in Nat
    BY <1>0, <2>1, SymsNat DEF FrameLen
  <2>3. hi' \in Nat /\ lo' \in 0..hi'
    BY <1>0, <1>1, <2>2 DEF PushFrame, bufVars
  <2>4. cur' = cur /\ taken' = taken
    BY <1>1 DEF PushFrame, bufVars
  <2>5. cur' \in 0..Len(frames')
    BY <1>0, <2>1, <2>4 DEF PhyTypeOK
  <2>6. 1..Len(frames) \subseteq 1..Len(frames')
    BY <1>0, <2>1
  <2>7. taken' \in Seq(1..Len(frames'))
    BY <2>4, <2>6, WiderSeq DEF PhyTypeOK
  <2> QED
    BY <1>1, <2>1, <2>3, <2>5, <2>7 DEF PushFrame, bufVars, PhyTypeOK, Sample
<1>2. ASSUME NEW p \in AirPayloads, NEW g \in Gaps, Send(p, g) PROVE PhyTypeOK'
  <2> DEFINE e == End(Len(frames))
             s == g + IF e > hi THEN e ELSE hi
  <2>1. e \in Nat
    BY <1>0, EndNat
  <2>2. s \in Nat
    BY <1>0, <2>1
  <2>3. frames' = Sent(p, s) /\ hi' = hi /\ UNCHANGED <<bufVars, sim, hi, busy, chunks>>
    BY <1>2 DEF Send
  <2>4. frames' \in Seq(Sample) /\ Len(frames') = Len(frames) + 1
    BY <2>2, <2>3, SentType
  <2>5. cur' \in 0..Len(frames')
    BY <1>0, <2>3, <2>4 DEF bufVars, PhyTypeOK
  <2>6. taken' = taken /\ 1..Len(frames) \subseteq 1..Len(frames')
    BY <1>0, <2>3, <2>4 DEF bufVars
  <2>7. taken' \in Seq(1..Len(frames'))
    BY <2>6, WiderSeq DEF PhyTypeOK
  <2> QED
    BY <2>3, <2>4, <2>5, <2>7 DEF bufVars, PhyTypeOK, Sample
<1>3. ASSUME NEW n \in ChunkSizes, PushChunk(n) PROVE PhyTypeOK'
  BY <1>0, <1>3 DEF PushChunk, bufVars, PhyTypeOK
<1>4. CASE HuntShort
  BY <1>4 DEF HuntShort, Break, bufVars, PhyTypeOK
<1>5. CASE HuntNothing
  <2>1. hi - lo >= 512
    BY <1>0, <1>5 DEF HuntNothing, Search
  <2>2. lo' \in 0..hi'
    BY <1>0, <1>5, <2>1 DEF HuntNothing, Break
  <2> QED
    BY <1>5, <2>2 DEF HuntNothing, Break, PhyTypeOK
<1>6. ASSUME NEW s \in Found, HuntPartial(s) PROVE PhyTypeOK'
  <2>1. lo' \in 0..hi'
    BY <1>0, <1>6, FoundBounds DEF HuntPartial, HuntStep, Break
  <2> QED
    BY <1>6, <2>1 DEF HuntPartial, Break, PhyTypeOK
<1>7. ASSUME NEW s \in Found, HuntInvalid(s) PROVE PhyTypeOK'
  <2>1. lo' \in 0..hi'
    BY <1>0, <1>7, FoundBounds DEF HuntInvalid, HuntStep, Break
  <2> QED
    BY <1>7, <2>1 DEF HuntInvalid, Break, PhyTypeOK
<1>8. ASSUME NEW s \in Found, NEW n \in MisreadSyms, HuntMisread(s, n) PROVE PhyTypeOK'
  <2>1. s \in Int /\ s >= lo + 3
    BY <1>8, FoundBounds DEF HuntMisread, HuntStep
  <2>2. PICK t \in (s - 6)..(s + 6) : Reach(t) <= hi /\ lo' = t + Head0
    BY <1>0, <1>8, <2>1, SettledNear DEF HuntMisread
  <2>3. lo' \in 0..hi' /\ need' \in Nat /\ need' % 80 = 0
    BY <1>0, <1>8, <2>1, <2>2 DEF HuntMisread, Stay, Reach
  <2>4. cur' \in 0..Len(frames')
    BY <1>0, <1>8 DEF HuntMisread, Stay
  <2> QED
    BY <1>0, <1>8, <2>3, <2>4 DEF HuntMisread, Stay, PhyTypeOK
<1>9. ASSUME NEW s \in Found, HuntLock(s) PROVE PhyTypeOK'
  <2> DEFINE f == frames[First]
  <2>1. First \in DOMAIN frames /\ f \in Sample
    BY <1>9, FirstFrame DEF HuntLock, Aligned
  <2>2. f.start \in Nat /\ f.len % LenMod = f.len /\ RxSyms(f.mcs, f.len) \in Nat
    BY <2>1, SampleFields
  <2>3. /\ hi' = hi /\ lo' = f.start + Head0 /\ Reach(f.start) <= hi
        /\ need' = SymLen * RxSyms(f.mcs, f.len)
    BY <1>9, <2>2 DEF HuntLock, Stay
  <2> HIDE DEF f
  <2>4. lo' \in 0..hi' /\ need' \in Nat /\ need' % 80 = 0
    <3>1. \A x \in Nat : 80 * x \in Nat /\ (80 * x) % 80 = 0
      OBVIOUS
    <3>2. lo' \in 0..hi'
      BY <1>0, <2>2, <2>3 DEF Reach
    <3> QED
      BY <1>0, <2>2, <2>3, <3>1, <3>2
  <2>5. First \in 0..Len(frames)
    BY <1>0, <2>1, LenProperties DEF PhyTypeOK
  <2> QED
    BY <1>0, <1>9, <2>4, <2>5 DEF HuntLock, Stay, PhyTypeOK
<1>10. CASE DataShort
  BY <1>10 DEF DataShort, Break, bufVars, PhyTypeOK
<1>11. CASE Decode
  <2>1. lo' \in 0..hi'
    BY <1>0, <1>11 DEF Decode, DecodeTo, Stay
  <2>2. taken' \in Seq(1..Len(frames))
    <3>1. AllSymbols(cur) => cur \in 1..Len(frames)
      BY <1>0 DEF AllSymbols, PhyTypeOK
    <3> QED
      BY <1>11, <3>1, AppendFacts DEF Decode, DecodeTo, PhyTypeOK
  <2> QED
    BY <1>11, <2>1, <2>2 DEF Decode, DecodeTo, Stay, PhyTypeOK
<1>12. CASE UNCHANGED phyVars
  BY <1>12 DEF phyVars, PhyTypeOK
<1> QED
  BY <1>1, <1>2, <1>3, <1>4, <1>5, <1>6, <1>7, <1>8, <1>9, <1>10, <1>11, <1>12
     DEF PhyNext, FrontEnd, Receive

\* PhyTypeOK of PhyRx: the receiver never slices more than its buffer holds.
THEOREM TypeCorrect == PhySpec => []PhyTypeOK
<1>1. PhyInit => PhyTypeOK
  BY InitType
<1>2. PhyTypeOK /\ [PhyNext]_phyVars => PhyTypeOK'
  BY NextType
<1> QED
  BY <1>1, <1>2, PTL DEF PhySpec

-----------------------------------------------------------------------------
(* The simulated front end.  The induction needs where the receiver is     *)
(* within the last frame: before it, in its symbols, or done with it.      *)

\* Both sides count the same symbols, at least one, and the bit order of
\* every scheme in use is restored.
Agree ==
    \A p \in LoopPayloads :
        /\ RxSyms(p.mcs, p.len) = TxSyms(p.mcs, p.len)
        /\ TxSyms(p.mcs, p.len) >= 1
        /\ p.mcs \in RestoredMcs

UpTo(n) == [k \in 1..n |-> k]

\* The frames of the loopback: the last ends where the stream ends, those
\* before it lie behind its first sample by more than an STF and a tail.
FramesInv ==
    LET n == Len(frames)
    IN  /\ \A k \in 1..n : \E p \in LoopPayloads : frames[k].mcs = p.mcs /\ frames[k].len = p.len
        /\ n > 0 => hi = frames[n].start + FrameLen(frames[n])
        /\ \A k \in 1..(n - 1) : frames[k].start + 128 < frames[n].start - 80
        /\ n = 1 => frames[n].start = 0
        /\ n = 0 => hi = 0

Done == /\ state = "HUNT"
        /\ taken = UpTo(Len(frames))
        /\ lo = IF Len(frames) = 0 THEN 0 ELSE hi - 80

Before == /\ busy /\ state = "HUNT" /\ Len(frames) > 0
          /\ taken = UpTo(Len(frames) - 1)
          /\ lo = IF Len(frames) = 1 THEN 0 ELSE frames[Len(frames)].start - 80

Inside == /\ busy /\ state = "DATA" /\ Len(frames) > 0
          /\ taken = UpTo(Len(frames) - 1)
          /\ cur = Len(frames)
          /\ lo = frames[cur].start + Head0
          /\ need = SymLen * TxSyms(frames[cur].mcs, frames[cur].len)

LoopInv == sim => FramesInv /\ (Done \/ Before \/ Inside)

LEMMA LoopInit == PhyInit => LoopInv
<1> SUFFICES ASSUME PhyInit PROVE FramesInv /\ Done
  BY DEF LoopInv
<1>1. Len(frames) = 0
  BY DEF PhyInit
<1>2. taken = UpTo(0)
  BY DEF PhyInit, UpTo
<1> QED
  BY <1>1, <1>2 DEF PhyInit, FramesInv, Done

\* A frame of the loopback is at least 560 samples long.
LEMMA LoopFrame ==
    ASSUME Agree, PhyTypeOK, FramesInv, Len(frames) > 0
    PROVE  LET f == frames[Len(frames)]
           IN  /\ f \in Sample
               /\ RxSyms(f.mcs, f.len) = TxSyms(f.mcs, f.len)
               /\ TxSyms(f.mcs, f.len) \in Nat \ {0}
               /\ f.mcs \in RestoredMcs
               /\ hi = f.start + 480 + 80 * TxSyms(f.mcs, f.len)
               /\ Len(frames) \in 1..Len(frames)
<1> DEFINE n == Len(frames)
           f == frames[n]
<1>1. n \in 1..n /\ n \in Nat
  BY LenProperties DEF PhyTypeOK
<1>2. frames \in Seq(Sample)
  BY DEF PhyTypeOK, Sample
<1>3. f \in Sample
  BY <1>1, <1>2, ElementOfSeq
<1>4. PICK p \in LoopPayloads : f.mcs = p.mcs /\ f.len = p.len
  BY <1>1 DEF FramesInv
<1>5. hi = f.start + FrameLen(f)
  BY <1>1 DEF FramesInv
<1> HIDE DEF f
<1>6. /\ f.start \in Nat /\ TxSyms(f.mcs, f.len) \in Nat
      /\ RxSyms(f.mcs, f.len) = TxSyms(f.mcs, f.len)
      /\ TxSyms(f.mcs, f.len) >= 1 /\ f.mcs \in RestoredMcs
  BY <1>3, <1>4, SampleFields DEF Agree
<1>7. hi = f.start + 480 + 80 * TxSyms(f.mcs, f.len)
  BY <1>5, <1>6 DEF FrameLen, Head0, SymLen
<1> QED
  BY <1>1, <1>3, <1>6, <1>7 DEF f

\* Before the last frame, the hunt sees that frame and nothing else, within
\* the window it searches, and the header is all there.
LEMMA BeforeFacts ==
    ASSUME Agree, PhyTypeOK, FramesInv, Before, sim
    PROVE  LET b == frames[Len(frames)].start
           IN  /\ Ahead # {} /\ First = Len(frames)
               /\ Search \in Int /\ Search >= 80
               /\ \A i \in Onsets : i \in Int /\ i < lo + Search
               /\ \A s \in Found : Aligned(s) /\ Settled(s) = {b} /\ Reach(b) <= hi
<1> DEFINE n == Len(frames)
           b == frames[n].start
           T == TxSyms(frames[n].mcs, frames[n].len)
<1>1. n \in 1..n /\ n \in Nat /\ DOMAIN frames = 1..n
  BY LenProperties DEF PhyTypeOK, Before
<1>2. b \in Nat /\ T \in Nat \ {0} /\ hi = b + 480 + 80 * T
  BY LoopFrame, SampleFields DEF Before
<1>3. /\ n = 1 => b = 0 /\ lo = 0
      /\ n # 1 => lo = b - 80
      /\ \A k \in 1..(n - 1) : frames[k].start + 128 < b - 80
  BY <1>1 DEF FramesInv, Before
<1>4. lo \in Nat /\ lo <= b /\ hi \in Nat
  <2>1. lo \in Nat /\ hi \in Nat
    BY DEF PhyTypeOK
  <2>2. b \in Nat /\ (lo = b \/ lo = b - 80)
    BY <1>2, <1>3
  <2> HIDE DEF b
  <2> QED
    BY <2>1, <2>2
<1>5. Ahead = {n}
  <2>1. n \in Ahead
    BY <1>1, <1>2, <1>4 DEF Ahead
  <2>2. ASSUME NEW k \in Ahead, k # n PROVE FALSE
    <3>1. k \in 1..(n - 1) /\ n # 1 /\ lo <= frames[k].start + 128
      BY <1>1, <2>2 DEF Ahead
    <3>2. frames[k].start \in Nat
      <4>1. frames \in Seq(Sample) /\ k \in 1..Len(frames)
        BY <1>1, <3>1 DEF PhyTypeOK, Sample
      <4>2. frames[k] \in Sample
        BY <4>1, ElementOfSeq
      <4> QED
        BY <4>2, SampleFields
    <3> DEFINE a == frames[k].start
    <3>3. a \in Nat /\ b \in Nat /\ a + 128 < b - 80 /\ lo = b - 80 /\ lo <= a + 128
      BY <1>2, <1>3, <3>1, <3>2
    <3> HIDE DEF a, b
    <3> QED
      BY <3>3
  <2> QED
    BY <2>1, <2>2
<1>6. First = n
  BY <1>1, <1>5 DEF First
<1>7. Search \in Int /\ Search >= 80 /\ (n # 1 => Search >= 160)
  <2>1. 80 * T >= 80 /\ 80 * T \in Nat
    BY <1>2
  <2>2. hi >= b + 560
    BY <1>2, <2>1
  <2>3. hi - lo >= 560 /\ (n # 1 => hi - lo >= 640)
    <3>1. CASE n = 1
      BY <1>3, <1>4, <2>2, <3>1
    <3>2. CASE n # 1
      <4>1. lo = b - 80 /\ b \in Nat
        BY <1>2, <1>3, <3>2
      <4> HIDE DEF b
      <4> QED
        BY <1>4, <2>2, <4>1
    <3> QED
      BY <3>1, <3>2
  <2> QED
    BY <1>4, <2>3 DEF Search
<1>8. \A i \in Onsets : i \in Int /\ i >= b - 3 /\ i <= b
  <2>1. Onsets = {IF i > lo THEN i ELSE lo : i \in (b - 3)..b}
    BY <1>5, <1>6 DEF Onsets
  <2>2. b \in Nat /\ lo \in Nat /\ lo <= b
    BY <1>2, <1>4
  <2> HIDE DEF b
  <2> QED
    BY <2>1, <2>2
<1>9. \A i \in Onsets : i < lo + Search
  <2>1. CASE n = 1
    <3>1. b = 0 /\ lo = 0
      BY <1>3, <2>1
    <3> HIDE DEF b
    <3> QED
      BY <1>7, <1>8, <3>1
  <2>2. CASE n # 1
    <3>1. lo = b - 80 /\ b \in Nat /\ Search >= 160 /\ Search \in Int
      BY <1>2, <1>3, <1>7, <2>2
    <3> HIDE DEF b
    <3> QED
      BY <1>8, <3>1
  <2> QED
    BY <2>1, <2>2
<1>10. \A s \in Found : s \in Int /\ s >= b /\ s <= b + 3
  <2>1. Alarms = {}
    BY DEF Alarms
  <2>2. \A s \in Found : \E i \in Onsets : s = i + 3
    BY <2>1 DEF Found
  <2>3. ASSUME NEW i \in Onsets PROVE i + 3 \in Int /\ i + 3 >= b /\ i + 3 <= b + 3
    <3>1. b \in Nat /\ i \in Int /\ i >= b - 3 /\ i <= b
      BY <1>2, <1>8
    <3> HIDE DEF b
    <3> QED
      BY <3>1
  <2> QED
    BY <2>2, <2>3
<1>11. \A s \in Found : Aligned(s)
  BY <1>2, <1>5, <1>6, <1>10 DEF Aligned
<1>12. Reach(b) <= hi
  BY <1>2 DEF Reach, Head0, SymLen
<1> QED
  BY <1>5, <1>6, <1>7, <1>8, <1>9, <1>11, <1>12 DEF Settled

\* With 80 samples or fewer there is nothing to hunt.
LEMMA DoneFacts ==
    ASSUME PhyTypeOK, FramesInv, Done
    PROVE  Search < 32
BY LenProperties DEF PhyTypeOK, FramesInv, Done, Search

\* In the symbols of the last frame, all of them and the tail are there.
LEMMA InsideFacts ==
    ASSUME Agree, PhyTypeOK, FramesInv, Inside
    PROVE  /\ AllSymbols(cur) /\ cur = Len(frames) /\ Len(frames) \in Nat \ {0}
           /\ lo + need = hi - 80 /\ hi - lo >= need /\ ~(hi - lo < need)
<1> DEFINE f == frames[Len(frames)]
           T == TxSyms(f.mcs, f.len)
<1>1. /\ f.start \in Nat /\ f.len % LenMod = f.len
      /\ RxSyms(f.mcs, f.len) = T /\ T \in Nat \ {0} /\ f.mcs \in RestoredMcs
      /\ hi = f.start + 480 + 80 * T
  BY LoopFrame, SampleFields DEF Inside
<1>2. lo = f.start + 400 /\ need = 80 * T /\ cur = Len(frames) /\ Len(frames) \in Nat \ {0}
  BY LenProperties DEF Inside, Head0, SymLen, PhyTypeOK
<1>3. AllSymbols(cur)
  BY <1>1, <1>2 DEF AllSymbols
<1>4. lo + need = hi - 80 /\ hi - lo >= need /\ ~(hi - lo < need)
  <2>1. \A b, t \in Nat : /\ (b + 400) + 80 * t = (b + 480 + 80 * t) - 80
                          /\ (b + 480 + 80 * t) - (b + 400) >= 80 * t
                          /\ ~((b + 480 + 80 * t) - (b + 400) < 80 * t)
    OBVIOUS
  <2> DEFINE b == f.start
  <2>2. b \in Nat /\ T \in Nat /\ hi = b + 480 + 80 * T /\ lo = b + 400 /\ need = 80 * T
    BY <1>1, <1>2
  <2> HIDE DEF T, b
  <2>3. /\ (b + 400) + 80 * T = (b + 480 + 80 * T) - 80
        /\ (b + 480 + 80 * T) - (b + 400) >= 80 * T
        /\ ~((b + 480 + 80 * T) - (b + 400) < 80 * T)
    BY <2>1, <2>2
  <2> QED
    BY <2>2, <2>3
<1> QED
  BY <1>2, <1>3, <1>4

LEMMA UpToNext == ASSUME NEW n \in Nat \ {0} PROVE Append(UpTo(n - 1), n) = UpTo(n)
<1>1. UpTo(n - 1) \in Seq(Nat) /\ Len(UpTo(n - 1)) = n - 1
  BY DEF UpTo
<1>2. UpTo(n) \in Seq(Nat) /\ Len(UpTo(n)) = n
  BY DEF UpTo
<1>3. /\ Append(UpTo(n - 1), n) \in Seq(Nat) /\ Len(Append(UpTo(n - 1), n)) = n
      /\ \A k \in 1..(n - 1) : Append(UpTo(n - 1), n)[k] = k
      /\ Append(UpTo(n - 1), n)[n] = n
  BY <1>1, AppendProperties DEF UpTo
<1>4. \A k \in 1..n : Append(UpTo(n - 1), n)[k] = UpTo(n)[k]
  BY <1>3 DEF UpTo
<1> QED
  BY <1>2, <1>3, <1>4, SeqEqual

LEMMA SimFixed == [PhyNext]_phyVars => sim' = sim
<1>1. FrontEnd => sim' = sim
  BY DEF FrontEnd, PushFrame, Send, PushChunk
<1>2. ASSUME NEW s \in Found, NEW n \in MisreadSyms
      PROVE  HuntPartial(s) \/ HuntInvalid(s) \/ HuntLock(s) \/ HuntMisread(s, n) => sim' = sim
  BY DEF HuntPartial, HuntInvalid, HuntLock, HuntMisread, Break, Stay
<1>3. ASSUME NEW s \in Found PROVE HuntPartial(s) \/ HuntInvalid(s) \/ HuntLock(s) => sim' = sim
  BY DEF HuntPartial, HuntInvalid, HuntLock, Break, Stay
<1>4. HuntShort \/ HuntNothing \/ DataShort \/ Decode => sim' = sim
  BY DEF HuntShort, HuntNothing, DataShort, Decode, DecodeTo, Break, Stay
<1> QED
  BY <1>1, <1>2, <1>3, <1>4 DEF PhyNext, Receive, phyVars

LEMMA LoopNext == Agree /\ PhyTypeOK /\ LoopInv /\ [PhyNext]_phyVars => LoopInv'
<1> SUFFICES ASSUME Agree, PhyTypeOK, LoopInv, [PhyNext]_phyVars, sim, sim' PROVE LoopInv'
  BY SimFixed DEF LoopInv
<1>0. /\ FramesInv /\ (Done \/ Before \/ Inside)
      /\ hi \in Nat /\ lo \in Nat /\ Len(frames) \in Nat /\ DOMAIN frames = 1..Len(frames)
  BY LenProperties DEF LoopInv, PhyTypeOK
<1>1. ASSUME NEW p \in LoopPayloads, PushFrame(p) PROVE LoopInv'
  <2> DEFINE n == Len(frames)
             x == [start |-> hi, mcs |-> p.mcs, len |-> p.len]
  <2>1. Done /\ state' = state /\ taken' = taken /\ lo' = lo /\ busy' /\ frames' = Append(frames, x)
    BY <1>0, <1>1 DEF PushFrame, bufVars, Before, Inside, Sent
  <2>2. /\ Len(frames') = n + 1 /\ frames'[n + 1] = x
        /\ \A k \in 1..n : frames'[k] = frames[k]
    BY <1>0, <2>1, AppendProperties DEF PhyTypeOK
  <2>4. FrameLen(x) = FrameLen(p) /\ hi' = hi + FrameLen(x)
    BY <1>1 DEF PushFrame, FrameLen
  <2>5. \A k \in 1..n : frames[k].start \in Nat
    <3> SUFFICES ASSUME NEW k \in 1..n PROVE frames[k].start \in Nat
      OBVIOUS
    <3>1. frames \in Seq(Sample)
      BY DEF PhyTypeOK, Sample
    <3>2. frames[k] \in Sample
      BY <3>1, ElementOfSeq
    <3> QED
      BY <3>2, SampleFields
  <2>6. ASSUME NEW k \in 1..n PROVE frames'[k].start + 128 < hi - 80
    <3> DEFINE b == frames[n].start
               a == frames[k].start
    <3>1. n > 0 /\ n \in 1..n
      BY <1>0
    <3>2. hi = b + 480 + 80 * TxSyms(frames[n].mcs, frames[n].len)
          /\ TxSyms(frames[n].mcs, frames[n].len) \in Nat \ {0}
      BY <1>0, <3>1, LoopFrame
    <3>3. a \in Nat /\ b \in Nat
      BY <2>5, <3>1
    <3>4. k = n \/ a + 128 < b - 80
      <4>1. k # n => k \in 1..(n - 1)
        BY <3>1
      <4>2. \A j \in 1..(n - 1) : frames[j].start + 128 < b - 80
        BY <1>0 DEF FramesInv
      <4> QED
        BY <4>1, <4>2
    <3>5. k = n => a = b
      OBVIOUS
    <3> HIDE DEF a, b
    <3>6. a + 128 < hi - 80
      BY <3>2, <3>3, <3>4, <3>5
    <3> QED
      BY <2>2, <3>6 DEF a
  <2>7. FramesInv'
    <3>1. \A k \in 1..(n + 1) : \E q \in LoopPayloads : frames'[k].mcs = q.mcs /\ frames'[k].len = q.len
      <4>1. \A k \in 1..n : \E q \in LoopPayloads : frames'[k].mcs = q.mcs /\ frames'[k].len = q.len
        BY <1>0, <2>2 DEF FramesInv
      <4>2. frames'[n + 1].mcs = p.mcs /\ frames'[n + 1].len = p.len
        BY <2>2
      <4> QED
        BY <1>0, <4>1, <4>2
    <3>2. hi' = frames'[n + 1].start + FrameLen(frames'[n + 1])
      BY <2>2, <2>4
    <3>3. \A k \in 1..n : frames'[k].start + 128 < frames'[n + 1].start - 80
      BY <2>2, <2>6
    <3>4. n = 0 => frames'[n + 1].start = 0
      BY <1>0, <2>2 DEF FramesInv
    <3> QED
      BY <1>0, <2>2, <3>1, <3>2, <3>3, <3>4 DEF FramesInv
  <2>8. Before'
    BY <1>0, <2>1, <2>2 DEF Before, Done, FramesInv
  <2> QED
    BY <2>7, <2>8 DEF LoopInv
<1>2. ASSUME NEW p \in AirPayloads, NEW g \in Gaps, Send(p, g) PROVE LoopInv'
  BY <1>2 DEF Send
<1>3. ASSUME NEW n \in ChunkSizes, PushChunk(n) PROVE LoopInv'
  BY <1>3 DEF PushChunk
<1>4. CASE HuntShort
  <2>1. Done
    BY <1>0, <1>4, BeforeFacts DEF HuntShort, Hunting, Inside, Before, Search
  <2> QED
    BY <1>0, <1>4, <2>1 DEF HuntShort, Break, bufVars, LoopInv, FramesInv, Done
<1>5. CASE HuntNothing
  <2>1. Before
    BY <1>0, <1>5, DoneFacts DEF HuntNothing, Hunting, Inside, Search
  <2> QED
    <3>1. PICK i \in Onsets : i >= lo + Search
      BY <1>5 DEF HuntNothing
    <3>2. Search \in Int /\ i \in Int /\ i < lo + Search
      BY <1>0, <2>1, BeforeFacts
    <3> QED
      BY <1>0, <3>1, <3>2
<1>6. ASSUME NEW s \in Found, HuntStep(s)
      PROVE  Before /\ Aligned(s) /\ First = Len(frames) /\ ~HuntPartial(s)
  <2>1. Before
    BY <1>0, <1>6, DoneFacts DEF HuntStep, Hunting, Inside, Search
  <2> DEFINE b == frames[Len(frames)].start
  <2>2. /\ Aligned(s) /\ First = Len(frames) /\ Settled(s) = {b}
        /\ Reach(b) <= hi
    BY <1>0, <1>6, <2>1, BeforeFacts
  <2>3. b \in Nat /\ Reach(b) \in Int
    BY <1>0, <2>1, LoopFrame, SampleFields DEF Before, Reach, Head0, SymLen
  <2>4. ~(Reach(b) > hi)
    BY <1>0, <2>2, <2>3
  <2> QED
    BY <2>1, <2>2, <2>4 DEF HuntPartial
<1>7. ASSUME NEW s \in Found, HuntPartial(s) PROVE LoopInv'
  BY <1>6, <1>7 DEF HuntPartial
<1>8. ASSUME NEW s \in Found, HuntInvalid(s) PROVE LoopInv'
  BY <1>0, <1>6, <1>8 DEF HuntInvalid, HeaderSafe
<1>9. ASSUME NEW s \in Found, NEW n \in MisreadSyms, HuntMisread(s, n) PROVE LoopInv'
  BY <1>0, <1>6, <1>9 DEF HuntMisread, HeaderSafe
<1>10. ASSUME NEW s \in Found, HuntLock(s) PROVE LoopInv'
  <2> DEFINE f == frames[Len(frames)]
  <2>1. Before /\ First = Len(frames)
    BY <1>6, <1>10 DEF HuntLock
  <2>2. RxSyms(f.mcs, f.len % LenMod) = TxSyms(f.mcs, f.len)
    BY <1>0, <2>1, LoopFrame, SampleFields DEF Before
  <2>3. Inside'
    BY <1>10, <2>1, <2>2 DEF HuntLock, Stay, Before, Inside
  <2> QED
    BY <1>0, <1>10, <2>3 DEF HuntLock, Stay, LoopInv, FramesInv
<1>11. CASE DataShort
  <2>1. Inside
    BY <1>0, <1>11 DEF DataShort, Done, Before
  <2> QED
    BY <1>0, <1>11, <2>1, InsideFacts DEF DataShort
<1>12. CASE Decode
  <2> DEFINE n == Len(frames)
  <2>1. Inside
    BY <1>0, <1>12 DEF Decode, DecodeTo, Done, Before
  <2>2. AllSymbols(cur) /\ lo + need = hi - 80 /\ cur = n /\ n \in Nat \ {0}
    BY <1>0, <2>1, InsideFacts
  <2>3. taken' = Append(UpTo(n - 1), n) /\ lo' = hi - 80 /\ state' = "HUNT"
    BY <1>12, <2>1, <2>2 DEF Decode, DecodeTo, Inside
  <2>4. taken' = UpTo(n)
    BY <2>2, <2>3, UpToNext
  <2>5. Done'
    BY <1>12, <2>2, <2>3, <2>4 DEF Decode, DecodeTo, Stay, Done
  <2> QED
    BY <1>0, <1>12, <2>5 DEF Decode, DecodeTo, Stay, LoopInv, FramesInv
<1>13. CASE UNCHANGED phyVars
  BY <1>0, <1>13 DEF phyVars, LoopInv, FramesInv, Done, Before, Inside
<1> QED
  BY <1>1, <1>2, <1>3, <1>4, <1>5, <1>7, <1>8, <1>9, <1>10, <1>11, <1>12, <1>13
     DEF PhyNext, FrontEnd, Receive

\* LoopbackComplete of PhyRx: over the simulated front end every push decodes
\* the frame it was given, in order, and leaves only its tail, for every
\* sequence of frames whose symbols both sides count alike.
THEOREM LoopbackIsComplete ==
    ASSUME Agree
    PROVE  PhySpec => []LoopbackComplete
<1>1. PhyInit => PhyTypeOK /\ LoopInv
  BY InitType, LoopInit
<1>2. PhyTypeOK /\ LoopInv /\ [PhyNext]_phyVars => (PhyTypeOK /\ LoopInv)'
  BY NextType, LoopNext
<1>3. PhyTypeOK /\ LoopInv => LoopbackComplete
  <2> SUFFICES ASSUME PhyTypeOK, LoopInv, sim, ~busy
               PROVE  taken = [k \in DOMAIN frames |-> k] /\ hi - lo <= SymLen
    BY DEF LoopbackComplete
  <2>1. Done /\ FramesInv
    BY DEF LoopInv, Before, Inside
  <2>2. taken = [k \in DOMAIN frames |-> k]
    BY <2>1, LenProperties DEF Done, UpTo, PhyTypeOK
  <2>3. hi - lo <= SymLen
    BY <2>1 DEF Done, FramesInv, SymLen, PhyTypeOK
  <2> QED
    BY <2>2, <2>3
<1> QED
  BY <1>1, <1>2, <1>3, PTL DEF PhySpec

-----------------------------------------------------------------------------
(* Nothing twice, over the air too.  The first sample of the buffer only   *)
(* moves on, and a frame that was read lies behind it by more than an STF, *)
(* so the hunt never sees it again.                                        *)

SpacedInv ==
    /\ \A j, k \in DOMAIN frames : j < k => frames[j].start < frames[k].start
    /\ sim => \A k \in DOMAIN frames : frames[k].start < hi

PassedInv ==
    /\ \A i \in DOMAIN taken : frames[taken[i]].start + 128 < lo
    /\ state = "DATA" /\ cur # 0 => /\ frames[cur].start + 128 < lo
                                    /\ \A i \in DOMAIN taken : taken[i] < cur
    /\ OrderedOnce

LEMMA IndexFacts ==
    ASSUME PhyTypeOK
    PROVE  /\ DOMAIN frames = 1..Len(frames) /\ Len(frames) \in Nat
           /\ DOMAIN taken = 1..Len(taken) /\ Len(taken) \in Nat
           /\ \A k \in DOMAIN frames : frames[k] \in Sample /\ frames[k].start \in Nat
           /\ \A i \in DOMAIN taken : taken[i] \in DOMAIN frames
<1>1. frames \in Seq(Sample) /\ taken \in Seq(1..Len(frames))
  BY DEF PhyTypeOK, Sample
<1>2. /\ DOMAIN frames = 1..Len(frames) /\ Len(frames) \in Nat
      /\ DOMAIN taken = 1..Len(taken) /\ Len(taken) \in Nat
  BY <1>1, LenProperties
<1>3. \A k \in DOMAIN frames : frames[k] \in Sample
  BY <1>1, <1>2, ElementOfSeq
<1>4. \A i \in DOMAIN taken : taken[i] \in 1..Len(frames)
  BY <1>1, <1>2, ElementOfSeq
<1> QED
  BY <1>2, <1>3, <1>4, SampleFields

\* Every frame begins before the stream of frames ends.
LEMMA StartsBeforeEnd ==
    ASSUME PhyTypeOK, SpacedInv, NEW k \in DOMAIN frames
    PROVE  frames[k].start < End(Len(frames))
<1> DEFINE n == Len(frames)
           f == frames[n]
<1>1. n \in Nat \ {0} /\ n \in DOMAIN frames /\ k \in 1..n
  BY IndexFacts
<1>2. f \in Sample
  BY <1>1, IndexFacts
<1>3. frames[k].start <= f.start /\ frames[k].start \in Nat
  <2>1. k = n \/ k < n
    BY <1>1
  <2> QED
    BY <1>1, <2>1, IndexFacts DEF SpacedInv
<1>4. End(n) = f.start + FrameLen(f)
  BY <1>1 DEF End
<1> HIDE DEF f
<1>5. f.start \in Nat /\ TxSyms(f.mcs, f.len) \in Nat
  BY <1>2, SampleFields
<1>6. FrameLen(f) \in Nat /\ FrameLen(f) >= 480
  BY <1>5 DEF FrameLen, Head0, SymLen
<1> QED
  BY <1>3, <1>4, <1>5, <1>6

\* A frame that is sent begins after all others.
LEMMA SentSpaced ==
    ASSUME PhyTypeOK, SpacedInv, PassedInv,
           NEW p \in LoopPayloads \cup AirPayloads, NEW s \in Nat,
           frames' = Sent(p, s), \A k \in DOMAIN frames : frames[k].start < s,
           hi' \in Nat, sim' => s < hi', UNCHANGED bufVars
    PROVE  SpacedInv' /\ PassedInv'
<1> DEFINE n == Len(frames)
           x == [start |-> s, mcs |-> p.mcs, len |-> p.len]
<1>1. n \in Nat /\ DOMAIN frames = 1..n /\ \A k \in 1..n : frames[k].start \in Nat
  BY IndexFacts
<1>2. frames' = Append(frames, x) /\ frames \in Seq(Sample)
  BY DEF Sent, PhyTypeOK, Sample
<1>3. DOMAIN frames' = 1..(n + 1) /\ frames'[n + 1] = x /\ \A k \in 1..n : frames'[k] = frames[k]
  BY <1>1, <1>2, AppendProperties
<1>4. \A k \in 1..(n + 1) : k \in 1..n \/ k = n + 1
  BY <1>1
<1>5. \A k \in 1..n : frames'[k].start = frames[k].start /\ frames'[k].start < s
  BY <1>1, <1>3
<1>6. frames'[n + 1].start = s
  BY <1>3
<1>7. ASSUME NEW j \in 1..(n + 1), NEW k \in 1..(n + 1), j < k
      PROVE  frames'[j].start < frames'[k].start
  <2>1. j \in 1..n
    BY <1>1, <1>7
  <2>2. CASE k \in 1..n
    BY <1>1, <1>5, <1>7, <2>1, <2>2 DEF SpacedInv
  <2>3. CASE k = n + 1
    BY <1>5, <1>6, <2>1, <2>3
  <2> QED
    BY <1>4, <2>2, <2>3
<1>8. ASSUME sim', NEW k \in 1..(n + 1) PROVE frames'[k].start < hi'
  <2>1. s < hi'
    BY <1>8
  <2>2. CASE k \in 1..n
    BY <1>1, <1>5, <2>1, <2>2
  <2>3. CASE k = n + 1
    BY <1>6, <2>1, <2>3
  <2> QED
    BY <1>4, <2>2, <2>3
<1>9. SpacedInv'
  BY <1>3, <1>7, <1>8 DEF SpacedInv
<1>10. \A i \in DOMAIN taken : taken[i] \in 1..n /\ frames'[taken[i]].start = frames[taken[i]].start
  BY <1>1, <1>5, IndexFacts
<1>11. cur # 0 => frames'[cur].start = frames[cur].start
  <2>1. cur # 0 => cur \in 1..n
    BY <1>1 DEF PhyTypeOK
  <2> QED
    BY <1>5, <2>1
<1> QED
  BY <1>9, <1>10, <1>11 DEF PassedInv, OrderedOnce, bufVars

\* The buffer moves on, and no frame is being read that was not before.
LEMMA MovesOn ==
    ASSUME PhyTypeOK, PassedInv, UNCHANGED <<frames, taken>>, lo' \in Int, lo' >= lo,
           \/ state' = "HUNT"
           \/ cur' = 0
           \/ state' = state /\ cur' = cur
    PROVE  PassedInv'
<1>1. lo \in Nat
  BY DEF PhyTypeOK
<1>2. \A i \in DOMAIN taken : frames[taken[i]].start \in Nat
  BY IndexFacts
<1>3. \A i \in DOMAIN taken : frames[taken[i]].start + 128 < lo'
  BY <1>1, <1>2 DEF PassedInv
<1>4. cur # 0 => frames[cur].start \in Nat
  <2>1. cur # 0 => cur \in DOMAIN frames
    BY IndexFacts DEF PhyTypeOK
  <2> QED
    BY <2>1, IndexFacts
<1>5. ASSUME state' = "DATA", cur' # 0
      PROVE  /\ frames[cur'].start + 128 < lo'
             /\ \A i \in DOMAIN taken : taken[i] < cur'
  BY <1>1, <1>4, <1>5 DEF PassedInv
<1> QED
  BY <1>3, <1>5 DEF PassedInv, OrderedOnce

LEMMA PassedNext ==
    PhyTypeOK /\ SpacedInv /\ PassedInv /\ [PhyNext]_phyVars => SpacedInv' /\ PassedInv'
<1> SUFFICES ASSUME PhyTypeOK, SpacedInv, PassedInv, [PhyNext]_phyVars
             PROVE  SpacedInv' /\ PassedInv'
  OBVIOUS
<1>0. /\ hi \in Nat /\ lo \in Nat /\ lo <= hi /\ need \in Nat
      /\ SymLen = 80 /\ Head0 = 400
  BY DEF PhyTypeOK, SymLen, Head0
<1>1. ASSUME NEW p \in LoopPayloads, PushFrame(p) PROVE SpacedInv' /\ PassedInv'
  <2>1. FrameLen(p) \in Nat /\ FrameLen(p) >= 480
    <3>1. p.mcs \in Mcs /\ p.len \in Nat
      BY <1>0, <1>1, SentType DEF PushFrame
    <3>2. TxSyms(p.mcs, p.len) \in Nat
      BY <3>1, SymsNat
    <3> QED
      BY <1>0, <3>2 DEF FrameLen
  <2>2. hi' \in Nat /\ hi < hi' /\ frames' = Sent(p, hi) /\ UNCHANGED bufVars
    BY <1>0, <1>1, <2>1 DEF PushFrame
  <2>3. \A k \in DOMAIN frames : frames[k].start < hi
    BY <1>1 DEF PushFrame, SpacedInv
  <2> QED
    BY <1>0, <2>2, <2>3, SentSpaced
<1>2. ASSUME NEW p \in AirPayloads, NEW g \in Gaps, Send(p, g) PROVE SpacedInv' /\ PassedInv'
  <2> DEFINE e == End(Len(frames))
             s == g + IF e > hi THEN e ELSE hi
  <2>1. e \in Nat /\ g \in Nat
    BY EndNat, PhyAssumption
  <2> HIDE DEF e
  <2>2. s \in Nat /\ s >= e
    BY <1>0, <2>1
  <2>3. \A k \in DOMAIN frames : frames[k].start < s
    <3> SUFFICES ASSUME NEW k \in DOMAIN frames PROVE frames[k].start < s
      OBVIOUS
    <3>1. frames[k].start < e /\ frames[k].start \in Nat
      BY StartsBeforeEnd, IndexFacts DEF e
    <3> QED
      BY <2>1, <2>2, <3>1
  <2>4. frames' = Sent(p, s) /\ hi' = hi /\ ~sim' /\ UNCHANGED bufVars
    BY <1>2 DEF Send, e
  <2> HIDE DEF s
  <2> QED
    BY <1>0, <2>2, <2>3, <2>4, SentSpaced
<1>3. ASSUME UNCHANGED <<sim, frames>>, hi' \in Nat, hi' >= hi PROVE SpacedInv'
  <2>1. \A k \in DOMAIN frames : frames[k].start \in Nat
    BY IndexFacts
  <2> QED
    BY <1>0, <1>3, <2>1 DEF SpacedInv
<1>4. ASSUME NEW n \in ChunkSizes, PushChunk(n) PROVE SpacedInv' /\ PassedInv'
  <2>1. hi' \in Nat /\ hi' >= hi /\ UNCHANGED <<sim, frames>> /\ UNCHANGED bufVars
    BY <1>0, <1>4, PhyAssumption DEF PushChunk
  <2> QED
    BY <1>0, <1>3, <2>1, MovesOn DEF bufVars
<1>5. CASE HuntShort \/ DataShort \/ UNCHANGED phyVars
  <2>1. UNCHANGED <<sim, frames, hi>> /\ UNCHANGED bufVars
    BY <1>5 DEF HuntShort, DataShort, Break, phyVars, bufVars
  <2> QED
    BY <1>0, <1>3, <2>1, MovesOn DEF bufVars
<1>6. CASE HuntNothing
  <2>1. hi - lo >= 512
    BY <1>0, <1>6 DEF HuntNothing, Search
  <2>2. lo' \in Int /\ lo' >= lo
    BY <1>0, <1>6, <2>1 DEF HuntNothing
  <2>3. UNCHANGED <<sim, frames, hi, taken, state, cur>>
    BY <1>6 DEF HuntNothing, Break
  <2> QED
    BY <1>0, <1>3, <2>2, <2>3, MovesOn
<1>7. ASSUME NEW s \in Found, HuntPartial(s) \/ HuntInvalid(s)
      PROVE  SpacedInv' /\ PassedInv'
  <2>1. s \in Int /\ s >= lo + 3
    BY <1>7, FoundBounds DEF HuntPartial, HuntInvalid, HuntStep
  <2>2. lo' \in Int /\ lo' >= lo
    BY <1>0, <1>7, <2>1 DEF HuntPartial, HuntInvalid
  <2>3. UNCHANGED <<sim, frames, hi, taken, state, cur>>
    BY <1>7 DEF HuntPartial, HuntInvalid, Break
  <2> QED
    BY <1>0, <1>3, <2>2, <2>3, MovesOn
<1>8. ASSUME NEW s \in Found, NEW n \in MisreadSyms, HuntMisread(s, n)
      PROVE  SpacedInv' /\ PassedInv'
  <2>1. s \in Int /\ s >= lo + 3
    BY <1>8, FoundBounds DEF HuntMisread, HuntStep
  <2>2. PICK t \in (s - 6)..(s + 6) : lo' = t + Head0
    BY <1>0, <1>8, <2>1, SettledNear DEF HuntMisread
  <2>3. lo' \in Int /\ lo' >= lo
    BY <1>0, <2>1, <2>2
  <2>4. UNCHANGED <<sim, frames, hi, taken>> /\ cur' = 0
    BY <1>8 DEF HuntMisread, Stay
  <2> QED
    BY <1>0, <1>3, <2>3, <2>4, MovesOn
<1>9. ASSUME NEW s \in Found, HuntLock(s) PROVE SpacedInv' /\ PassedInv'
  <2> DEFINE b == frames[First].start
  <2>1. First \in DOMAIN frames /\ lo <= b + 128 /\ b \in Nat
    BY <1>9, FirstFrame, IndexFacts DEF HuntLock, Aligned
  <2>2. lo' = b + 400 /\ cur' = First /\ UNCHANGED <<sim, frames, hi, taken>>
    BY <1>0, <1>9 DEF HuntLock, Stay
  <2> HIDE DEF b
  <2>3. ASSUME NEW i \in DOMAIN taken
        PROVE  taken[i] < First /\ frames[taken[i]].start + 128 < lo'
    <3>1. taken[i] \in DOMAIN frames /\ frames[taken[i]].start \in Nat
      BY IndexFacts
    <3>2. frames[taken[i]].start + 128 < lo
      BY DEF PassedInv
    <3>3. frames[taken[i]].start < b
      BY <1>0, <2>1, <3>1, <3>2
    <3>4. ~(First < taken[i]) /\ First # taken[i]
      BY <2>1, <3>1, <3>3 DEF SpacedInv, b
    <3>5. First \in Nat /\ taken[i] \in Nat
      BY <2>1, <3>1, IndexFacts
    <3>6. taken[i] < First
      BY <3>4, <3>5
    <3>7. frames[taken[i]].start + 128 < lo'
      BY <1>0, <2>1, <2>2, <3>1, <3>2
    <3> QED
      BY <3>6, <3>7
  <2>4. frames[First].start + 128 < lo'
    BY <2>1, <2>2 DEF b
  <2>5. PassedInv'
    BY <2>2, <2>3, <2>4 DEF PassedInv, OrderedOnce
  <2> QED
    BY <1>0, <1>3, <2>2, <2>5
<1>10. CASE Decode
  <2>1. /\ lo' = lo + need /\ state' = "HUNT" /\ UNCHANGED <<sim, frames, hi, cur>>
        /\ state = "DATA"
        /\ taken' = IF AllSymbols(cur) THEN Append(taken, cur) ELSE taken
    BY <1>10 DEF Decode, DecodeTo, Stay
  <2>2. SpacedInv'
    BY <1>0, <1>3, <2>1
  <2>3. CASE ~AllSymbols(cur)
    BY <1>0, <2>1, <2>2, <2>3, MovesOn
  <2>4. CASE AllSymbols(cur)
    <3> DEFINE m == Len(taken)
    <3>1. cur # 0 /\ cur \in 1..Len(frames) /\ taken \in Seq(1..Len(frames))
      BY <2>4, IndexFacts DEF AllSymbols, PhyTypeOK
    <3>2. /\ m \in Nat /\ DOMAIN taken = 1..m /\ DOMAIN taken' = 1..(m + 1)
          /\ taken'[m + 1] = cur /\ \A i \in 1..m : taken'[i] = taken[i]
      BY <2>1, <2>4, <3>1, AppendProperties, IndexFacts
    <3>3. \A i \in 1..(m + 1) : i \in 1..m \/ i = m + 1
      BY <3>2
    <3>4. ASSUME NEW i \in 1..(m + 1) PROVE frames[taken'[i]].start + 128 < lo'
      <4>1. taken'[i] \in DOMAIN frames /\ frames[taken'[i]].start + 128 < lo
        BY <2>1, <3>1, <3>2, <3>3, IndexFacts DEF PassedInv
      <4>2. frames[taken'[i]].start \in Nat
        BY <4>1, IndexFacts
      <4> QED
        BY <1>0, <2>1, <4>1, <4>2
    <3>5. ASSUME NEW i \in 1..(m + 1), NEW j \in 1..(m + 1), i < j
          PROVE  taken'[i] < taken'[j]
      <4>1. i \in 1..m
        BY <3>2, <3>5
      <4>2. CASE j \in 1..m
        BY <3>2, <3>5, <4>1, <4>2 DEF PassedInv, OrderedOnce
      <4>3. CASE j = m + 1
        BY <2>1, <3>1, <3>2, <4>1, <4>3 DEF PassedInv
      <4> QED
        BY <3>3, <4>2, <4>3
    <3> QED
      BY <2>1, <2>2, <3>2, <3>4, <3>5 DEF PassedInv, OrderedOnce
  <2> QED
    BY <2>3, <2>4
<1> QED
  BY <1>1, <1>2, <1>4, <1>5, <1>6, <1>7, <1>8, <1>9, <1>10 DEF PhyNext, FrontEnd, Receive

\* OrderedOnce of PhyRx: wherever frames lie in the stream, however it is cut
\* into chunks, whatever noise looks like a preamble and whatever a misread
\* header says, no frame is decoded twice and none after a later one.
THEOREM DecodedInOrderOnce == PhySpec => []OrderedOnce
<1>1. PhyInit => PhyTypeOK /\ SpacedInv /\ PassedInv
  <2> SUFFICES ASSUME PhyInit PROVE SpacedInv /\ PassedInv
    BY InitType
  <2>1. DOMAIN frames = {} /\ DOMAIN taken = {}
    BY DEF PhyInit
  <2> QED
    BY <2>1 DEF PhyInit, SpacedInv, PassedInv, OrderedOnce
<1>2. PhyTypeOK /\ SpacedInv /\ PassedInv /\ [PhyNext]_phyVars
         => (PhyTypeOK /\ SpacedInv /\ PassedInv)'
  BY NextType, PassedNext
<1>3. PassedInv => OrderedOnce
  BY DEF PassedInv
<1> QED
  BY <1>1, <1>2, <1>3, PTL DEF PhySpec

=============================================================================
