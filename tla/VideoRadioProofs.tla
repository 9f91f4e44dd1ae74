-------------------------- MODULE VideoRadioProofs --------------------------
(***************************************************************************)
(* Proofs about the video sender (VideoTx), the video packets (VideoStream) *)
(* and the radio front end (FrontEnd): for any table of bitrates and any   *)
(* number of starts, any sequence space and any number of packets, any     *)
(* frame lengths, budget and buffer.                                       *)
(***************************************************************************)
EXTENDS VideoTx, VideoStream, FrontEnd, QueueLemmas

-----------------------------------------------------------------------------
(* VideoTx                                                                 *)

LEMMA VideoFacts ==
    /\ \A m \in VideoMcs : Kbps(m) \in Nat /\ Profile[m] \in Nat /\ m # NoMcs
    /\ InitKbps \in Nat /\ StartLimit \in Nat /\ 0 \in 0..StartLimit
    /\ 1 \in Pipeline
BY VideoTxAssumption DEF Kbps, NoMcs, Pipeline

LEMMA NearEachOther ==
    ASSUME NEW a \in Nat, NEW b \in Nat, a - b \in -99..99
    PROVE  b - a \in -99..99
<1>1. a - b >= -99 /\ a - b <= 99 /\ a - b \in Int
  OBVIOUS
<1>2. b - a >= -99 /\ b - a <= 99 /\ b - a \in Int
  BY <1>1
<1> QED
  BY <1>2

LEMMA LoopTyped ==
    ASSUME VideoTxTypeOK, NEW p \in Pipeline
    PROVE  /\ Loop(p) \in [Pipeline -> Thread]
           /\ Loop(p)[p].at \in {"sleep", "done"}
           /\ Loop(p)[p].at = "sleep" => running
           /\ \A q \in Pipeline \ {p} : Loop(p)[q] = abr[q]
BY DEF VideoTxTypeOK, Loop, Thread

\* A thread belongs to a pipeline that was started, and acts on a scheme.
ThreadInv ==
    /\ \A p \in Pipeline : /\ abr[p].at \in {"state", "rate"} => abr[p].mcs \in VideoMcs
                           /\ abr[p].at # "none" => p <= started /\ linkMcs # NoMcs
    /\ started = 0 => currentMcs = NoMcs

\* What the thread of a video started once has done at each of its statements.
OneInv == started = 1 =>
    /\ kbps = rate[1]
    /\ abr[1].at \in {"state", "rate"} => currentMcs = abr[1].mcs
    /\ abr[1].at = "rate" => /\ Profile[abr[1].mcs] # 0
                             /\ running => gst[1] = "PLAYING"
    /\ RateSettled

VideoTxInv == VideoTxTypeOK /\ ThreadInv /\ OneInv

LEMMA VideoTxInitInv == VideoTxInit => VideoTxInv
<1> SUFFICES ASSUME VideoTxInit PROVE VideoTxInv
  OBVIOUS
<1>1. VideoTxTypeOK
  BY VideoFacts DEF VideoTxInit, VideoTxTypeOK, Thread
<1> QED
  BY <1>1 DEF VideoTxInit, VideoTxInv, ThreadInv, OneInv

LEMMA OnlyThread ==
    ASSUME VideoTxInv, started = 1, NEW p \in Pipeline, abr[p].at # "none"
    PROVE  p = 1
BY DEF VideoTxInv, ThreadInv, Pipeline

LEMMA VideoTxNextInv == VideoTxInv /\ [VideoTxNext]_videoTxVars => VideoTxInv'
<1> SUFFICES ASSUME VideoTxInv, [VideoTxNext]_videoTxVars PROVE VideoTxInv'
  OBVIOUS
<1> USE DEF VideoTxInv, VideoTxTypeOK
<1>1. CASE StartGstreamer
  <2>1. started \in Nat /\ started' = started + 1 /\ started' \in Pipeline
    BY <1>1, VideoFacts DEF StartGstreamer, Pipeline
  <2>2. abr' \in [Pipeline -> Thread] /\ \A p \in Pipeline :
           /\ abr'[p].mcs = abr[p].mcs
           /\ abr'[p].at = IF linkMcs # NoMcs /\ p = started + 1 THEN "sleep"
                           ELSE abr[p].at
    BY <1>1, <2>1 DEF StartGstreamer, Thread
  <2>3. VideoTxTypeOK'
    BY <1>1, <2>1, <2>2 DEF StartGstreamer, Pipeline
  <2>4. ThreadInv'
    BY <1>1, <2>1, <2>2 DEF StartGstreamer, ThreadInv, Pipeline
  <2>5. ASSUME started' = 1
        PROVE  /\ currentMcs' = NoMcs /\ kbps' = rate'[1]
               /\ abr'[1].at \in {"none", "sleep"}
    <3>1. started = 0 /\ 1 \in Pipeline
      BY <2>1, <2>5
    <3>2. abr[1].at = "none"
      BY <3>1 DEF ThreadInv
    <3> QED
      BY <1>1, <2>2, <3>1, <3>2 DEF StartGstreamer, ThreadInv
  <2> QED
    BY <2>3, <2>4, <2>5 DEF OneInv, RateSettled
<1>2. CASE StopVideo
  <2>1. VideoTxTypeOK'
    BY <1>2 DEF StopVideo
  <2> QED
    BY <1>2, <2>1 DEF StopVideo, ThreadInv, OneInv, RateSettled
<1>3. CASE LinkChanges
  <2>1. /\ VideoTxTypeOK'
        /\ UNCHANGED <<running, started, gst, rate, kbps, currentMcs, abr>>
        /\ linkMcs' # NoMcs
    BY <1>3, VideoFacts DEF LinkChanges
  <2> QED
    BY <2>1 DEF ThreadInv, OneInv, RateSettled, Fits
<1>4. ASSUME NEW p \in Pipeline, abr[p].at # "none",
             abr' \in [Pipeline -> Thread], abr'[p].at # "none",
             abr'[p].at \in {"state", "rate"} => abr'[p].mcs \in VideoMcs,
             \A q \in Pipeline \ {p} : abr'[q] = abr[q],
             started' = started, linkMcs' = linkMcs, started = 0 => currentMcs' = NoMcs
      PROVE  ThreadInv'
  <2>1. ASSUME NEW q \in Pipeline
        PROVE  /\ abr'[q].at \in {"state", "rate"} => abr'[q].mcs \in VideoMcs
               /\ abr'[q].at # "none" => q <= started /\ linkMcs # NoMcs
    <3>1. CASE q = p
      BY <1>4, <3>1 DEF ThreadInv
    <3>2. CASE q # p
      BY <1>4, <3>2 DEF ThreadInv
    <3> QED
      BY <3>1, <3>2
  <2> QED
    BY <1>4, <2>1 DEF ThreadInv
<1>5. ASSUME NEW p \in Pipeline, abr[p].at # "none" PROVE started # 0
  BY <1>5 DEF ThreadInv, Pipeline
<1>6. ASSUME NEW p \in Pipeline, AbrSame(p) PROVE VideoTxInv'
  <2>1. VideoTxTypeOK' /\ ThreadInv'
    BY <1>4, <1>6, LoopTyped DEF AbrSame, ThreadInv
  <2>2. started = 1 => p = 1
    BY <1>6, OnlyThread DEF AbrSame
  <2> QED
    BY <1>6, <2>1, <2>2, LoopTyped DEF AbrSame, OneInv, RateSettled, Fits
<1>7. ASSUME NEW p \in Pipeline, AbrChanged(p) PROVE VideoTxInv'
  <2>1. /\ abr' \in [Pipeline -> Thread]
        /\ abr'[p] = [at |-> "state", mcs |-> linkMcs]
        /\ \A q \in Pipeline \ {p} : abr'[q] = abr[q]
    BY <1>7 DEF AbrChanged, Thread
  <2>2. linkMcs \in VideoMcs
    BY <1>7 DEF AbrChanged, ThreadInv
  <2>4. VideoTxTypeOK' /\ ThreadInv'
    BY <1>4, <1>5, <1>7, <2>1, <2>2 DEF AbrChanged
  <2>3. started = 1 => p = 1
    BY <1>7, OnlyThread DEF AbrChanged
  <2> QED
    BY <1>7, <2>1, <2>3, <2>4 DEF AbrChanged, OneInv, RateSettled
<1>8. ASSUME NEW p \in Pipeline, AbrPause(p) PROVE VideoTxInv'
  <2>1. VideoTxTypeOK' /\ ThreadInv'
    BY <1>4, <1>5, <1>8, LoopTyped DEF AbrPause
  <2>2. started = 1 => p = 1
    BY <1>8, OnlyThread DEF AbrPause
  <2>3. ASSUME started = 1
        PROVE  Profile[currentMcs] = 0 /\ gst'[1] = "PAUSED" /\ abr'[1].at \in {"sleep", "done"}
    BY <1>8, <2>2, <2>3, LoopTyped, VideoFacts DEF AbrPause, OneInv, Kbps
  <2> QED
    BY <1>8, <2>1, <2>3 DEF AbrPause, OneInv, RateSettled, Fits
<1>9. ASSUME NEW p \in Pipeline, AbrPlay(p) PROVE VideoTxInv'
  <2>1. /\ abr' \in [Pipeline -> Thread]
        /\ abr'[p].at = "rate" /\ abr'[p].mcs = abr[p].mcs
        /\ \A q \in Pipeline \ {p} : abr'[q] = abr[q]
    BY <1>9 DEF AbrPlay, Thread
  <2>2. abr[p].at = "state" /\ abr[p].mcs \in VideoMcs
    BY <1>9 DEF AbrPlay, ThreadInv
  <2>3. VideoTxTypeOK' /\ ThreadInv'
    BY <1>4, <1>5, <1>9, <2>1, <2>2 DEF AbrPlay
  <2>4. started = 1 => p = 1
    BY <2>2, OnlyThread
  <2>5. ASSUME started = 1
        PROVE  Profile[abr'[1].mcs] # 0 /\ gst'[1] = "PLAYING" /\ abr'[1].at = "rate"
               /\ currentMcs = abr'[1].mcs
    BY <1>9, <2>1, <2>2, <2>4, <2>5, VideoFacts DEF AbrPlay, OneInv, Kbps
  <2> QED
    BY <1>9, <2>3, <2>5 DEF AbrPlay, OneInv, RateSettled
<1>10. ASSUME NEW p \in Pipeline, AbrRate(p) PROVE VideoTxInv'
  <2>1. Kbps(abr[p].mcs) \in Nat /\ abr[p].mcs \in VideoMcs
    BY <1>10, VideoFacts DEF AbrRate, ThreadInv
  <2>2. kbps' \in Nat /\ rate' \in [Pipeline -> Nat]
    BY <1>10, <2>1 DEF AbrRate
  <2>3. VideoTxTypeOK' /\ ThreadInv'
    BY <1>4, <1>5, <1>10, <2>2, LoopTyped DEF AbrRate
  <2>4. started = 1 => p = 1
    BY <1>10, OnlyThread DEF AbrRate
  <2>5. ASSUME started = 1
        PROVE  /\ kbps' = rate'[1] /\ currentMcs = abr[1].mcs
               /\ rate'[1] - Profile[abr[1].mcs] \in -99..99
    <3>1. kbps = rate[1] /\ currentMcs = abr[1].mcs /\ kbps \in Nat
      BY <1>10, <2>4, <2>5 DEF AbrRate, OneInv
    <3>2. CASE Near(Kbps(abr[p].mcs))
      <4>1. kbps' = kbps /\ rate' = rate
        BY <1>10, <3>2 DEF AbrRate
      <4>2. Profile[abr[1].mcs] - kbps \in -99..99 /\ Profile[abr[1].mcs] \in Nat
        BY <2>1, <2>4, <2>5, <3>2 DEF Near, Kbps
      <4>3. kbps - Profile[abr[1].mcs] \in -99..99
        BY <3>1, <4>2, NearEachOther
      <4> QED
        BY <3>1, <4>1, <4>3
    <3>3. CASE ~Near(Kbps(abr[p].mcs))
      BY <1>10, <2>1, <2>4, <2>5, <3>1, <3>3, VideoFacts DEF AbrRate, Kbps
    <3> QED
      BY <3>2, <3>3
  <2>6. ASSUME started = 1 PROVE running => Fits(currentMcs)'
    BY <1>10, <2>4, <2>5, <2>6 DEF AbrRate, OneInv, Fits
  <2>7. started = 1 => abr'[1].at \in {"sleep", "done"}
    BY <1>10, <2>4, LoopTyped DEF AbrRate
  <2> QED
    BY <1>10, <2>3, <2>5, <2>6, <2>7 DEF AbrRate, OneInv, RateSettled
<1>11. CASE UNCHANGED videoTxVars
  BY <1>11 DEF videoTxVars, ThreadInv, OneInv, RateSettled, Fits
<1> QED
  BY <1>1, <1>2, <1>3, <1>6, <1>7, <1>8, <1>9, <1>10, <1>11 DEF VideoTxNext, Abr

LEMMA VideoTxInvariant == VideoTxSpec => []VideoTxInv
BY VideoTxInitInv, VideoTxNextInv, PTL DEF VideoTxSpec

\* Pipelines, bitrates and threads keep their types over any number of starts.
THEOREM VideoTxTypeCorrect == VideoTxSpec => []VideoTxTypeOK
BY VideoTxInvariant, PTL DEF VideoTxInv

\* For every table of bitrates, whenever the scheme changes and whenever stop
\* comes: after a turn of the thread the one pipeline fits the noted scheme.
THEOREM RateIsSettled == VideoTxSpec => []RateSettled
<1>1. VideoTxInv => RateSettled
  BY DEF VideoTxInv, OneInv, RateSettled
<1> QED
  BY <1>1, VideoTxInvariant, PTL

-----------------------------------------------------------------------------
(* FrontEnd.  The air time that the account has admitted and that has not  *)
(* been sent is in the buffer or in the frame on the air.  A backlog of a  *)
(* queue gives, for each place, the units meant for 863 MHz from there on. *)

Charge(f) == IF f.band = 863 THEN f.units ELSE 0

IsBacklog(R, z) ==
    /\ R \in [1..(Len(z) + 1) -> Nat]
    /\ R[Len(z) + 1] = 0
    /\ \A i \in 1..Len(z) : R[i] = Charge(z[i]) + R[i + 1]

UnsentOnAir == IF onAir = <<>> THEN 0 ELSE Charge(onAir[1])

\* Sent, on the air, queued, and what is left of the running window fit in
\* the budgets of the windows begun.
Covered == \E R : /\ IsBacklog(R, txBuffer)
                  /\ airedMeant + UnsentOnAir + R[1] + (Budget - used) <= windows * Budget

LEMMA BacklogEmpty == IsBacklog([i \in {1} |-> 0], <<>>)
<1>1. Len(<<>>) = 0 /\ 1..(0 + 1) = {1}
  OBVIOUS
<1> QED
  BY <1>1 DEF IsBacklog

\* A frame at the end adds its charge, if any.
LEMMA BacklogAppend ==
    ASSUME NEW z \in Seq(Burst), NEW x \in Burst, NEW R, IsBacklog(R, z)
    PROVE  \E T : IsBacklog(T, Append(z, x)) /\ T[1] = R[1] + Charge(x)
<1> DEFINE n == Len(z)
           T == [i \in 1..(n + 2) |-> IF i = n + 2 THEN 0 ELSE R[i] + Charge(x)]
<1>1. /\ n \in Nat /\ Len(Append(z, x)) = n + 1 /\ Append(z, x)[n + 1] = x
      /\ \A i \in 1..n : Append(z, x)[i] = z[i]
  BY AppendFacts, LenProperties
<1>2. Charge(x) \in Nat
  BY DEF Charge, Burst
<1>3. /\ R \in [1..(n + 1) -> Nat] /\ R[n + 1] = 0
      /\ \A i \in 1..n : R[i] = Charge(z[i]) + R[i + 1]
  BY DEF IsBacklog
<1> HIDE DEF n
<1>4. T \in [1..(n + 2) -> Nat] /\ T[n + 2] = 0 /\ T[1] = R[1] + Charge(x)
  BY <1>1, <1>2, <1>3
<1>5. ASSUME NEW i \in 1..(n + 1) PROVE T[i] = Charge(Append(z, x)[i]) + T[i + 1]
  <2>1. CASE i = n + 1
    BY <1>1, <1>2, <1>3, <2>1
  <2>2. CASE i \in 1..n
    <3>1. T[i] = R[i] + Charge(x) /\ T[i + 1] = R[i + 1] + Charge(x)
      BY <1>1, <2>2
    <3>2. R[i] \in Nat /\ R[i + 1] \in Nat /\ R[i] = Charge(z[i]) + R[i + 1]
      BY <1>1, <1>3, <2>2
    <3>3. Charge(z[i]) \in Nat
      <4>1. z[i] \in Burst
        BY <2>2, ElementOfSeq DEF n
      <4> QED
        BY <4>1 DEF Charge, Burst
    <3>4. Append(z, x)[i] = z[i]
      BY <1>1, <2>2
    <3> QED
      BY <1>2, <3>1, <3>2, <3>3, <3>4
  <2> QED
    BY <1>1, <2>1, <2>2
<1>6. IsBacklog(T, Append(z, x))
  <2>1. (n + 1) + 1 = n + 2
    BY <1>1
  <2> QED
    BY <1>1, <1>4, <1>5, <2>1 DEF IsBacklog
<1> QED
  BY <1>4, <1>6

\* The frame taken leaves with its charge.
LEMMA BacklogTail ==
    ASSUME NEW z \in Seq(Burst), z # <<>>, NEW R, IsBacklog(R, z)
    PROVE  \E T : IsBacklog(T, Tail(z)) /\ R[1] = Charge(Head(z)) + T[1]
                    /\ T[1] \in Nat
<1> DEFINE n == Len(z)
           T == [i \in 1..n |-> R[i + 1]]
<1>1. /\ n \in Nat \ {0} /\ Len(Tail(z)) = n - 1 /\ Head(z) = z[1]
      /\ \A i \in 1..(n - 1) : Tail(z)[i] = z[i + 1]
  BY TailFacts, LenProperties, EmptySeq
<1>2. /\ R \in [1..(n + 1) -> Nat] /\ R[n + 1] = 0
      /\ \A i \in 1..n : R[i] = Charge(z[i]) + R[i + 1]
  BY DEF IsBacklog
<1> HIDE DEF n
<1>3. T \in [1..n -> Nat] /\ T[n] = 0 /\ T[1] = R[2] /\ T[1] \in Nat
  BY <1>1, <1>2
<1>4. ASSUME NEW i \in 1..(n - 1) PROVE T[i] = Charge(Tail(z)[i]) + T[i + 1]
  BY <1>1, <1>2
<1>5. R[1] = Charge(Head(z)) + T[1]
  BY <1>1, <1>2, <1>3
<1>6. IsBacklog(T, Tail(z))
  <2>1. (n - 1) + 1 = n
    BY <1>1
  <2> QED
    BY <1>1, <1>3, <1>4, <2>1 DEF IsBacklog
<1> QED
  BY <1>3, <1>5, <1>6

LEMMA FrontFacts ==
    /\ Budget \in Nat /\ Window \in Nat /\ BufferSize \in Nat
    /\ CallLimit \in Nat
    /\ \A n \in Length : n \in Nat \ {0} /\ \A b \in Band : [band |-> b, units |-> n] \in Burst
BY FrontEndAssumption DEF Burst

LEMMA FrontInitOK == FrontInit => FrontTypeOK /\ Covered
<1> SUFFICES ASSUME FrontInit PROVE FrontTypeOK /\ Covered
  OBVIOUS
<1>1. FrontTypeOK
  BY FrontFacts, EmptySeq DEF FrontInit, FrontTypeOK
<1>2. Covered
  <2> DEFINE R == [i \in {1} |-> 0]
  <2>1. IsBacklog(R, txBuffer) /\ R[1] = 0
    BY BacklogEmpty DEF FrontInit
  <2>2. airedMeant + UnsentOnAir + 0 + (Budget - used) <= windows * Budget
    BY FrontFacts DEF FrontInit, UnsentOnAir
  <2> HIDE DEF R
  <2> QED
    BY <2>1, <2>2 DEF Covered
<1> QED
  BY <1>1, <1>2

\* transmit: what the frame does to buffer and backlog.
LEMMA TransmitFacts ==
    ASSUME FrontTypeOK, NEW b \in Band, NEW n \in Length, Transmit(b, n),
           NEW R, IsBacklog(R, txBuffer)
    PROVE  /\ tuned' = b /\ calls' \in 0..CallLimit
           /\ txBuffer' \in Seq(Burst) /\ Len(txBuffer') <= BufferSize
           /\ \E T : /\ IsBacklog(T, txBuffer') /\ T[1] \in Nat
                     /\ T[1] <= R[1] + (IF b = 863 THEN n ELSE 0)
<1> PICK x : x = [band |-> b, units |-> n]
  OBVIOUS
<1>1. /\ x \in Burst /\ Charge(x) = (IF b = 863 THEN n ELSE 0) /\ n \in Nat
      /\ Charge(x) \in Nat
  BY FrontFacts DEF Charge
<1>2. txBuffer \in Seq(Burst) /\ Len(txBuffer) <= BufferSize /\ Len(txBuffer) \in Nat
  BY LenProperties DEF FrontTypeOK
<1>3. R[1] \in Nat
  BY <1>2 DEF IsBacklog
<1>4. tuned' = b /\ calls' \in 0..CallLimit
  BY FrontFacts DEF Transmit, FrontTypeOK
<1>5. CASE Len(txBuffer) >= BufferSize
  <2>1. txBuffer' = txBuffer
    BY <1>5 DEF Transmit
  <2>2. IsBacklog(R, txBuffer')
    BY <2>1
  <2>3. R[1] <= R[1] + (IF b = 863 THEN n ELSE 0)
    BY <1>1, <1>3
  <2> QED
    BY <1>2, <1>3, <1>4, <2>1, <2>2, <2>3
<1>6. CASE ~(Len(txBuffer) >= BufferSize)
  <2>1. txBuffer' = Append(txBuffer, x)
    BY <1>6 DEF Transmit
  <2>2. txBuffer' \in Seq(Burst) /\ Len(txBuffer') <= BufferSize
    BY <1>1, <1>2, <1>6, <2>1, FrontFacts, AppendFacts
  <2>3. PICK T : IsBacklog(T, txBuffer') /\ T[1] = R[1] + Charge(x)
    BY <1>1, <1>2, <2>1, BacklogAppend
  <2>4. T[1] \in Nat /\ T[1] <= R[1] + (IF b = 863 THEN n ELSE 0)
    BY <1>1, <1>3, <2>3
  <2> QED
    BY <1>4, <2>2, <2>3, <2>4
<1> QED
  BY <1>5, <1>6

\* A window begun brings a budget of its own.
LEMMA AccountFacts ==
    ASSUME FrontTypeOK, Account
    PROVE  /\ windowAge' \in 0..(Window + 1) /\ windows' \in Nat
           /\ Spent \in 0..Budget
           /\ windows * Budget \in Nat /\ windows' * Budget \in Nat
           /\ windows * Budget - (Budget - used) = windows' * Budget - (Budget - Spent)
                \/ windows * Budget - (Budget - used) <= windows' * Budget - (Budget - Spent)
<1>1. /\ windows \in Nat /\ used \in 0..Budget /\ Budget \in Nat /\ Window \in Nat
      /\ windowAge \in 0..(Window + 1)
  BY FrontFacts DEF FrontTypeOK
<1>2. CASE NewWindow
  <2>1. windows' = windows + 1 /\ windowAge' = 0 /\ Spent = 0
    BY <1>2 DEF Account, Spent
  <2>2. windows * Budget \in Nat /\ (windows + 1) * Budget = windows * Budget + Budget
    BY <1>1
  <2> QED
    BY <1>1, <2>1, <2>2
<1>3. CASE ~NewWindow
  <2>1. windows' = windows /\ windowAge' = windowAge /\ Spent = used
    BY <1>3 DEF Account, Spent
  <2>2. windows * Budget \in Nat
    BY <1>1
  <2> QED
    BY <1>1, <2>1, <2>2
<1> QED
  BY <1>2, <1>3

\* The arithmetic of an account: sent m, on the air u, queued r before and t
\* after n more units, used w of a budget of b and v after a new window.
LEMMA Accounting ==
    ASSUME NEW m \in Nat, NEW u \in Nat, NEW r \in Nat, NEW t \in Nat, NEW n \in Nat,
           NEW b \in Nat, NEW w \in Nat, NEW v \in Nat, NEW x \in Nat, NEW y \in Nat,
           m + u + r + (b - w) <= x, x - (b - w) <= y - (b - v), t <= r + n
    PROVE  m + u + t + (b - (v + n)) <= y
<1>1. m + u + r <= x - (b - w)
  OBVIOUS
<1>2. m + u + r <= y - (b - v)
  BY <1>1
<1>3. m + u + t <= y - (b - v) + n
  BY <1>2
<1> QED
  BY <1>3

LEMMA FrontStep == FrontTypeOK /\ Covered /\ [FrontNext]_frontVars => (FrontTypeOK /\ Covered)'
<1> SUFFICES ASSUME FrontTypeOK, Covered, [FrontNext]_frontVars
             PROVE  FrontTypeOK' /\ Covered'
  OBVIOUS
<1> USE FrontFacts
<1>1. PICK R : /\ IsBacklog(R, txBuffer)
               /\ airedMeant + UnsentOnAir + R[1] + (Budget - used) <= windows * Budget
  BY DEF Covered
<1>2. /\ txBuffer \in Seq(Burst) /\ Len(txBuffer) \in Nat /\ Len(txBuffer) <= BufferSize
      /\ used \in 0..Budget /\ windows \in Nat /\ airedMeant \in Nat /\ aired \in Nat
      /\ onAir \in Seq(Burst) /\ Len(onAir) <= 1
  BY LenProperties DEF FrontTypeOK
<1>3. R[1] \in Nat /\ windows * Budget \in Nat
  BY <1>1, <1>2 DEF IsBacklog
<1>4. onAir # <<>> => Len(onAir) = 1 /\ onAir[1] \in Burst
  BY <1>2, EmptySeq, LenProperties, ElementOfSeq
<1>5. UnsentOnAir \in Nat
  BY <1>4 DEF UnsentOnAir, Charge, Burst
<1>6. ASSUME NEW T, IsBacklog(T, txBuffer'),
             airedMeant' + UnsentOnAir' + T[1] + (Budget - used') <= windows' * Budget
      PROVE  Covered'
  BY <1>6 DEF Covered
<1>7. ASSUME NEW n \in Length, Tx863(n) PROVE FrontTypeOK' /\ Covered'
  <2>1. /\ Transmit(863, n) /\ Account /\ Allows(n) /\ 863 \in Band
        /\ used' = Spent + n /\ UNCHANGED <<up, onAir, aired, airedMeant>>
    BY <1>7 DEF Tx863, Band
  <2>2. /\ tuned' = 863 /\ calls' \in 0..CallLimit
        /\ txBuffer' \in Seq(Burst) /\ Len(txBuffer') <= BufferSize
        /\ \E T : IsBacklog(T, txBuffer') /\ T[1] \in Nat /\ T[1] <= R[1] + n
    BY <1>1, <2>1, TransmitFacts
  <2>3. PICK T : IsBacklog(T, txBuffer') /\ T[1] \in Nat /\ T[1] <= R[1] + n
    BY <2>2
  <2>4. /\ windowAge' \in 0..(Window + 1) /\ windows' \in Nat /\ Spent \in 0..Budget
        /\ windows' * Budget \in Nat
        /\ windows * Budget - (Budget - used) <= windows' * Budget - (Budget - Spent)
    BY <1>2, <2>1, AccountFacts
  <2>5. n \in Nat /\ used' \in 0..Budget
    BY <2>1, <2>4 DEF Allows
  <2>6. UnsentOnAir' = UnsentOnAir
    BY <2>1 DEF UnsentOnAir
  <2>7. airedMeant' + UnsentOnAir' + T[1] + (Budget - used') <= windows' * Budget
    <3>1. airedMeant + UnsentOnAir + T[1] + (Budget - (Spent + n)) <= windows' * Budget
      <4>1. used \in Nat /\ Spent \in Nat
        BY <1>2, <2>4
      <4> QED
        BY <1>1, <1>2, <1>3, <1>5, <2>3, <2>4, <2>5, <4>1, Accounting
    <3> QED
      BY <2>1, <2>6, <3>1
  <2>8. Covered'
    BY <1>6, <2>3, <2>7
  <2>9. FrontTypeOK'
    BY <2>1, <2>2, <2>4, <2>5 DEF FrontTypeOK
  <2> QED
    BY <2>8, <2>9
<1>8. ASSUME NEW n \in Length, Refuse863(n) PROVE FrontTypeOK' /\ Covered'
  <2>1. /\ Account /\ used' = Spent
        /\ UNCHANGED <<up, tuned, txBuffer, onAir, calls, aired, airedMeant>>
    BY <1>8 DEF Refuse863
  <2>2. /\ windowAge' \in 0..(Window + 1) /\ windows' \in Nat /\ Spent \in 0..Budget
        /\ windows' * Budget \in Nat
        /\ windows * Budget - (Budget - used) <= windows' * Budget - (Budget - Spent)
    BY <1>2, <2>1, AccountFacts
  <2>3. UnsentOnAir' = UnsentOnAir
    BY <2>1 DEF UnsentOnAir
  <2>4. airedMeant' + UnsentOnAir' + R[1] + (Budget - used') <= windows' * Budget
    <3>1. used \in Nat /\ Spent \in Nat /\ R[1] <= R[1] + 0 /\ Spent + 0 = Spent
      BY <1>2, <1>3, <2>2
    <3>2. airedMeant + UnsentOnAir + R[1] + (Budget - (Spent + 0)) <= windows' * Budget
      BY <1>1, <1>2, <1>3, <1>5, <2>2, <3>1, Accounting
    <3> QED
      BY <2>1, <2>3, <3>1, <3>2
  <2>5. Covered'
    BY <1>1, <1>6, <2>1, <2>4
  <2>6. FrontTypeOK'
    BY <2>1, <2>2 DEF FrontTypeOK
  <2> QED
    BY <2>5, <2>6
<1>9. ASSUME NEW n \in Length, Tx2400(n) PROVE FrontTypeOK' /\ Covered'
  <2>1. /\ Transmit(2400, n) /\ 2400 \in Band /\ 2400 # 863
        /\ UNCHANGED <<up, onAir, used, windowAge, windows, aired, airedMeant>>
    BY <1>9 DEF Tx2400, Band
  <2>2. /\ tuned' = 2400 /\ calls' \in 0..CallLimit
        /\ txBuffer' \in Seq(Burst) /\ Len(txBuffer') <= BufferSize
        /\ \E T : IsBacklog(T, txBuffer') /\ T[1] \in Nat /\ T[1] <= R[1] + 0
    BY <1>1, <2>1, TransmitFacts
  <2>3. PICK T : IsBacklog(T, txBuffer') /\ T[1] \in Nat /\ T[1] <= R[1] + 0
    BY <2>2
  <2>4. UnsentOnAir' = UnsentOnAir
    BY <2>1 DEF UnsentOnAir
  <2>5. airedMeant' + UnsentOnAir' + T[1] + (Budget - used') <= windows' * Budget
    BY <1>1, <1>2, <1>3, <1>5, <2>1, <2>3, <2>4
  <2>6. Covered'
    BY <1>6, <2>3, <2>5
  <2>7. FrontTypeOK'
    BY <2>1, <2>2 DEF FrontTypeOK, Band
  <2> QED
    BY <2>6, <2>7
<1>10. ASSUME StartFront PROVE FrontTypeOK' /\ Covered'
  <2>1. UnsentOnAir' = UnsentOnAir
    BY <1>10 DEF StartFront, UnsentOnAir
  <2>2. Covered'
    BY <1>1, <1>6, <1>10, <2>1 DEF StartFront
  <2> QED
    BY <1>10, <2>2 DEF StartFront, FrontTypeOK
<1>11. ASSUME StopFront PROVE FrontTypeOK' /\ Covered'
  <2>1. UnsentOnAir' = 0
    BY <1>11 DEF StopFront, UnsentOnAir
  <2>2. airedMeant' + UnsentOnAir' + R[1] + (Budget - used') <= windows' * Budget
    BY <1>1, <1>2, <1>3, <1>5, <1>11, <2>1 DEF StopFront
  <2>3. Covered'
    BY <1>1, <1>6, <1>11, <2>2 DEF StopFront
  <2>4. FrontTypeOK'
    BY <1>11, EmptySeq DEF StopFront, FrontTypeOK
  <2> QED
    BY <2>3, <2>4
<1>12. ASSUME TakeBurst PROVE FrontTypeOK' /\ Covered'
  <2> PICK f : f = Head(txBuffer)
    OBVIOUS
  <2>1. /\ onAir = <<>> /\ txBuffer # <<>> /\ onAir' = <<f>> /\ txBuffer' = Tail(txBuffer)
        /\ UNCHANGED <<up, tuned, used, windowAge, calls, windows, aired, airedMeant>>
    BY <1>12 DEF TakeBurst
  <2>2. f \in Burst /\ txBuffer' \in Seq(Burst) /\ Len(txBuffer') = Len(txBuffer) - 1
    BY <1>2, <2>1, TailFacts
  <2>3. PICK T : IsBacklog(T, txBuffer') /\ R[1] = Charge(f) + T[1] /\ T[1] \in Nat
    BY <1>1, <1>2, <2>1, BacklogTail
  <2>4. UnsentOnAir = 0 /\ UnsentOnAir' = Charge(f) /\ Charge(f) \in Nat
    BY <2>1, <2>2 DEF UnsentOnAir, Charge, Burst
  <2>5. airedMeant' + UnsentOnAir' + T[1] + (Budget - used') <= windows' * Budget
    BY <1>1, <1>2, <1>3, <2>1, <2>3, <2>4
  <2>6. Covered'
    BY <1>6, <2>3, <2>5
  <2>7. onAir' \in Seq(Burst) /\ Len(onAir') <= 1
    BY <2>1, <2>2
  <2>8. FrontTypeOK'
    BY <1>2, <2>1, <2>2, <2>7 DEF FrontTypeOK
  <2> QED
    BY <2>6, <2>8
<1>13. ASSUME WriteStream PROVE FrontTypeOK' /\ Covered'
  <2> PICK f : f = onAir[1]
    OBVIOUS
  <2>1. /\ onAir # <<>> /\ f \in Burst /\ f.units \in Nat \ {0}
        /\ onAir' = IF f.units = 1 THEN <<>> ELSE <<[f EXCEPT !.units = f.units - 1]>>
        /\ airedMeant' = IF f.band = 863 THEN airedMeant + 1 ELSE airedMeant
        /\ aired' \in {aired, aired + 1}
        /\ UNCHANGED <<up, tuned, txBuffer, used, windowAge, calls, windows>>
    BY <1>4, <1>13 DEF WriteStream, Burst
  <2>2. UnsentOnAir = Charge(f)
    BY <2>1 DEF UnsentOnAir
  <2>3. /\ airedMeant' \in Nat /\ UnsentOnAir' \in Nat
        /\ airedMeant' + UnsentOnAir' = airedMeant + UnsentOnAir
        /\ onAir' \in Seq(Burst) /\ Len(onAir') <= 1
    <3>1. CASE f.units = 1
      <4>1. onAir' = <<>>
        BY <2>1, <3>1
      <4>2. UnsentOnAir' = 0
        BY <4>1 DEF UnsentOnAir
      <4> QED
        BY <1>2, <2>1, <2>2, <3>1, <4>1, <4>2, EmptySeq DEF Charge
    <3>2. CASE f.units # 1
      <4> PICK g : g = [f EXCEPT !.units = f.units - 1]
        OBVIOUS
      <4>1. onAir' = <<g>> /\ g \in Burst /\ g.band = f.band /\ g.units = f.units - 1
        BY <2>1, <3>2 DEF Burst
      <4>2. UnsentOnAir' = Charge(g)
        BY <4>1 DEF UnsentOnAir
      <4>3. onAir' \in Seq(Burst) /\ Len(onAir') <= 1
        BY <4>1
      <4>4. f.units - 1 \in Nat /\ f.units \in Nat
        BY <2>1, <3>2
      <4>5. CASE f.band = 863
        <5>1. airedMeant' = airedMeant + 1 /\ UnsentOnAir' = f.units - 1
              /\ UnsentOnAir = f.units
          BY <2>1, <2>2, <4>1, <4>2, <4>5 DEF Charge
        <5>2. airedMeant' + UnsentOnAir' = airedMeant + UnsentOnAir
          <6>1. \A j, k \in Nat : (j + 1) + (k - 1) = j + k
            OBVIOUS
          <6> QED
            BY <1>2, <4>4, <5>1, <6>1
        <5>3. airedMeant' \in Nat
          BY <1>2, <5>1
        <5>4. UnsentOnAir' \in Nat
          BY <4>4, <5>1
        <5> QED
          BY <4>3, <5>2, <5>3, <5>4
      <4>6. CASE f.band # 863
        BY <1>2, <2>1, <2>2, <4>1, <4>2, <4>3, <4>4, <4>6 DEF Charge
      <4> QED
        BY <4>5, <4>6
    <3> QED
      BY <3>1, <3>2
  <2>4. airedMeant' + UnsentOnAir' + R[1] + (Budget - used') <= windows' * Budget
    BY <1>1, <1>2, <1>3, <1>5, <2>1, <2>3
  <2>5. Covered'
    BY <1>1, <1>6, <2>1, <2>4
  <2>6. FrontTypeOK'
    <3>1. aired' \in Nat
      BY <1>2, <2>1
    <3> QED
      BY <2>1, <2>3, <3>1 DEF FrontTypeOK
  <2> QED
    BY <2>5, <2>6
<1>14. ASSUME FrontTick PROVE FrontTypeOK' /\ Covered'
  <2>1. UnsentOnAir' = UnsentOnAir
    BY <1>14 DEF FrontTick, UnsentOnAir
  <2>2. Covered'
    BY <1>1, <1>6, <1>14, <2>1 DEF FrontTick
  <2> QED
    BY <1>14, <2>2 DEF FrontTick, FrontTypeOK
<1>15. ASSUME UNCHANGED frontVars PROVE FrontTypeOK' /\ Covered'
  <2>1. UnsentOnAir' = UnsentOnAir
    BY <1>15 DEF frontVars, UnsentOnAir
  <2>2. Covered'
    BY <1>1, <1>6, <1>15, <2>1 DEF frontVars
  <2> QED
    BY <1>15, <2>2 DEF frontVars, FrontTypeOK
<1> QED
  BY <1>7, <1>8, <1>9, <1>10, <1>11, <1>12, <1>13, <1>14, <1>15 DEF FrontNext

\* The buffer keeps to its size, the account to its budget, and the sending
\* thread to one frame at a time.
THEOREM FrontTypeCorrect == FrontSpec => []FrontTypeOK
BY FrontInitOK, FrontStep, PTL DEF FrontSpec

\* Whatever is refused, dropped from a full buffer, cut off by a stop or
\* sent in a later window, the units sent of frames meant for 863 MHz stay
\* within the budgets of the windows begun: for any lengths and sizes.
THEOREM AirtimeIsBacked == FrontSpec => []AirtimeBacked
<1>1. FrontTypeOK /\ Covered => AirtimeBacked
  <2> SUFFICES ASSUME FrontTypeOK, Covered PROVE airedMeant <= windows * Budget
    BY DEF AirtimeBacked
  <2>1. PICK R : /\ IsBacklog(R, txBuffer)
                 /\ airedMeant + UnsentOnAir + R[1] + (Budget - used) <= windows * Budget
    BY DEF Covered
  <2>2. Len(txBuffer) \in Nat
    BY LenProperties DEF FrontTypeOK
  <2>3. R[1] \in Nat
    BY <2>1, <2>2 DEF IsBacklog
  <2>4. UnsentOnAir \in Nat
    <3>1. onAir # <<>> => onAir[1] \in Burst
      BY EmptySeq, LenProperties, ElementOfSeq DEF FrontTypeOK
    <3> QED
      BY <3>1 DEF UnsentOnAir, Charge, Burst
  <2>5. airedMeant \in Nat /\ used \in 0..Budget /\ Budget \in Nat /\ windows * Budget \in Nat
    BY FrontFacts DEF FrontTypeOK
  <2> QED
    BY <2>1, <2>3, <2>4, <2>5
<1> QED
  BY <1>1, FrontInitOK, FrontStep, PTL DEF FrontSpec

-----------------------------------------------------------------------------
(* VideoStream.  Arithmetic of the sequence numbers first.                 *)

LEMMA StreamFacts ==
    /\ SeqMod \in Nat \ {0, 1} /\ StaleWindow \in Nat /\ StaleWindow < SeqMod - 1
    /\ PacketLimit \in Nat /\ SeqNum = 0..(SeqMod - 1) /\ 0 \in SeqNum
BY VideoStreamAssumption DEF SeqNum

\* Numbers of one turn: the next one, and the distance counted back.
Neighbours(x, y, m) ==
    /\ (x + 0) % m = x
    /\ (x + 1) % m \in 0..(m - 1) /\ (x + 1) % m # x
    /\ (x - ((x + 1) % m)) % m = m - 1
    /\ (x - y) % m = 0 => x = y
    /\ (x - y) % m \in 0..(m - 1)

LEMMA Distance ==
    ASSUME NEW m \in Nat \ {0, 1}, NEW x \in 0..(m - 1), NEW y \in 0..(m - 1)
    PROVE  Neighbours(x, y, m)
<1>1. (x - y) % m = IF x >= y THEN x - y ELSE x - y + m
  OBVIOUS
<1>2. (x + 0) % m = x /\ (x + 1) % m = (IF x + 1 = m THEN 0 ELSE x + 1)
  OBVIOUS
<1>3. (x + 1) % m \in 0..(m - 1) /\ (x + 1) % m # x
  BY <1>2
<1>4. (x - ((x + 1) % m)) % m = m - 1
  <2>1. CASE x + 1 = m
    BY <1>2, <2>1
  <2>2. CASE x + 1 # m
    <3>1. (x + 1) % m = x + 1
      BY <1>2, <2>2
    <3>2. (0 - 1) % m = m - 1
      OBVIOUS
    <3>3. x - (x + 1) = 0 - 1
      OBVIOUS
    <3> QED
      BY <3>1, <3>2, <3>3
  <2> QED
    BY <2>1, <2>2
<1>5. ((x - y) % m = 0 => x = y) /\ (x - y) % m \in 0..(m - 1)
  BY <1>1
<1> QED
  BY <1>2, <1>3, <1>4, <1>5 DEF Neighbours

LEMMA SeqDistance ==
    ASSUME NEW x \in SeqNum, NEW y \in SeqNum
    PROVE  /\ (x + 0) % SeqMod = x
           /\ (x + 1) % SeqMod \in SeqNum /\ (x + 1) % SeqMod # x
           /\ (x - ((x + 1) % SeqMod)) % SeqMod = SeqMod - 1
           /\ (x - y) % SeqMod = 0 => x = y
           /\ (x - y) % SeqMod \in SeqNum
           /\ (x - x) % SeqMod = 0
<1>1. SeqMod \in Nat \ {0, 1} /\ SeqNum = 0..(SeqMod - 1)
  BY StreamFacts
<1>2. (x - x) % SeqMod = 0
  <2>1. x - x = 0 /\ 0 % SeqMod = 0
    BY <1>1
  <2> QED
    BY <2>1
<1>3. x \in 0..(SeqMod - 1) /\ y \in 0..(SeqMod - 1)
  BY <1>1
<1>4. Neighbours(x, y, SeqMod)
  BY <1>1, <1>3, Distance
<1> QED
  BY <1>1, <1>2, <1>4, Zenon DEF Neighbours

-----------------------------------------------------------------------------
(* What the receiver does.  The packets it holds lie behind the expected   *)
(* number, StaleWindow at most: a packet is played if it is the expected   *)
(* one when it arrives, and then alone, and what is held never comes out.  *)

HeldInv == \A s \in DOMAIN held : (nextSeq - s) % SeqMod \in 1..StaleWindow

LEMMA ArrivedFacts ==
    ASSUME StreamTypeOK, NEW p \in Packet, p = Head(wire)
    PROVE  /\ DOMAIN held \subseteq SeqNum /\ \A s \in DOMAIN held : held[s] \in Number
           /\ DOMAIN Arrived = DOMAIN held \cup {p.seq}
           /\ \A s \in DOMAIN Arrived : s \in SeqNum /\ Arrived[s] \in Number
           /\ Arrived[p.seq] = p.no
<1>1. PICK S \in SUBSET SeqNum : held \in [S -> Number]
  BY DEF StreamTypeOK
<1>2. p.seq \in SeqNum /\ p.no \in Number
  BY DEF Packet
<1> QED
  BY <1>1, <1>2 DEF Arrived

LEMMA RunIsShort ==
    ASSUME StreamTypeOK, HeldInv, NEW p \in Packet, p = Head(wire)
    PROVE  /\ Run(Arrived) = IF p.seq = nextSeq THEN 1 ELSE 0
           /\ (nextSeq + Run(Arrived)) % SeqMod \notin DOMAIN Arrived
<1> DEFINE D == DOMAIN Arrived
           P(k) == /\ \A j \in 0..(k - 1) : (nextSeq + j) % SeqMod \in D
                   /\ k = SeqMod \/ (nextSeq + k) % SeqMod \notin D
<1> USE StreamFacts
<1>1. /\ D = DOMAIN held \cup {p.seq} /\ p.seq \in SeqNum /\ nextSeq \in SeqNum
  BY ArrivedFacts DEF StreamTypeOK, Packet
<1>2. /\ (nextSeq + 0) % SeqMod = nextSeq
      /\ (nextSeq + 1) % SeqMod # nextSeq
      /\ (nextSeq - ((nextSeq + 1) % SeqMod)) % SeqMod = SeqMod - 1
      /\ (nextSeq - nextSeq) % SeqMod = 0
  BY <1>1, SeqDistance
<1>3. nextSeq \notin DOMAIN held
  BY <1>2 DEF HeldInv
<1>4. (nextSeq + 1) % SeqMod \notin DOMAIN held
  BY <1>2 DEF HeldInv
<1>5. Run(Arrived) = CHOOSE k \in 0..SeqMod : P(k)
  BY DEF Run
<1> HIDE DEF D
<1>6. CASE p.seq = nextSeq
  <2>1. nextSeq \in D /\ (nextSeq + 1) % SeqMod \notin D
    BY <1>1, <1>2, <1>4, <1>6
  <2>2. P(1)
    BY <1>2, <2>1
  <2>3. ASSUME NEW k \in 0..SeqMod, P(k) PROVE k = 1
    <3>1. k # 0
      BY <1>2, <2>1, <2>3
    <3>2. ~(k > 1)
      BY <2>1, <2>3
    <3> QED
      BY <3>1, <3>2
  <2>4. 1 \in 0..SeqMod
    OBVIOUS
  <2> HIDE DEF P
  <2>5. (CHOOSE k \in 0..SeqMod : P(k)) = 1
    BY <2>2, <2>3, <2>4
  <2> QED
    BY <1>5, <1>6, <2>1, <2>5 DEF D
<1>7. CASE p.seq # nextSeq
  <2>1. nextSeq \notin D
    BY <1>1, <1>3, <1>7
  <2>2. P(0)
    BY <1>2, <2>1
  <2>3. ASSUME NEW k \in 0..SeqMod, P(k) PROVE k = 0
    <3>1. ~(k > 0)
      BY <1>2, <2>1, <2>3
    <3> QED
      BY <3>1
  <2>4. 0 \in 0..SeqMod
    OBVIOUS
  <2> HIDE DEF P
  <2>5. (CHOOSE k \in 0..SeqMod : P(k)) = 0
    BY <2>2, <2>3, <2>4
  <2> QED
    BY <1>2, <1>5, <1>7, <2>1, <2>5 DEF D
<1> QED
  BY <1>6, <1>7

LEMMA ReceiveFacts ==
    ASSUME StreamTypeOK, HeldInv, OnRx, NEW p, p = Head(wire)
    PROVE  /\ wire # <<>> /\ wire' = Tail(wire) /\ p \in Packet
           /\ UNCHANGED <<txSeq, packed, count>>
           /\ p.seq = nextSeq => /\ nextSeq' = (nextSeq + 1) % SeqMod
                                 /\ played' = Append(played, p.no)
           /\ p.seq # nextSeq => nextSeq' = nextSeq /\ played' = played
           /\ held' \in UNION {[S -> Number] : S \in SUBSET SeqNum}
           /\ HeldInv'
<1> USE StreamFacts
<1>1. wire # <<>> /\ wire' = Tail(wire) /\ UNCHANGED <<txSeq, packed, count>>
  BY DEF OnRx
<1>2. p \in Packet /\ wire \in Seq(Packet)
  BY <1>1, TailFacts DEF StreamTypeOK
<1> DEFINE k == Run(Arrived)
           next == (nextSeq + k) % SeqMod
           popped == {(nextSeq + j) % SeqMod : j \in 0..(k - 1)}
           Kept == {s \in DOMAIN Arrived \ popped : ~Stale(next, s)}
           run == [j \in 1..k |-> Arrived[(nextSeq + j - 1) % SeqMod]]
<1>3. /\ k = IF p.seq = nextSeq THEN 1 ELSE 0
      /\ next \notin DOMAIN Arrived
  BY <1>2, RunIsShort
<1>4. /\ played' = played \o run
      /\ nextSeq' = next
      /\ held' = [s \in Kept |-> Arrived[s]]
  BY DEF OnRx
<1>5. /\ nextSeq \in SeqNum /\ played \in Seq(Number) /\ p.no \in Number
      /\ \A s \in DOMAIN Arrived : s \in SeqNum /\ Arrived[s] \in Number
      /\ Arrived[p.seq] = p.no
  BY <1>2, ArrivedFacts DEF StreamTypeOK, Packet
<1>6. nextSeq + 1 - 1 = nextSeq /\ (nextSeq + 0) % SeqMod = nextSeq
      /\ nextSeq % SeqMod = nextSeq /\ next \in SeqNum
  <2>1. (nextSeq + 0) % SeqMod = nextSeq /\ (nextSeq + 1) % SeqMod \in SeqNum
    BY <1>5, SeqDistance
  <2>2. nextSeq + 1 - 1 = nextSeq /\ nextSeq + 0 = nextSeq
    BY <1>5
  <2>3. nextSeq % SeqMod = nextSeq
    BY <2>1, <2>2
  <2>4. next = (nextSeq + 1) % SeqMod \/ next = (nextSeq + 0) % SeqMod
    BY <1>3
  <2> QED
    BY <1>5, <2>1, <2>2, <2>3, <2>4
<1> HIDE DEF k
<1>7. ASSUME p.seq = nextSeq
      PROVE  nextSeq' = (nextSeq + 1) % SeqMod /\ played' = Append(played, p.no)
  <2>1. k = 1
    BY <1>3, <1>7
  <2>2. Arrived[(nextSeq + 1 - 1) % SeqMod] = p.no
    BY <1>5, <1>6, <1>7
  <2>3. run = <<p.no>>
    BY <2>1, <2>2
  <2>4. played' = played \o <<p.no>>
    BY <1>4, <2>3
  <2>5. Append(played, p.no) = played \o <<p.no>>
    BY <1>5, AppendIsConcat
  <2> QED
    BY <1>4, <2>1, <2>4, <2>5
<1>8. ASSUME p.seq # nextSeq PROVE nextSeq' = nextSeq /\ played' = played
  <2>1. k = 0
    BY <1>3, <1>8
  <2>2. run = <<>>
    BY <2>1
  <2>3. played' = played
    BY <1>4, <1>5, <2>2, ConcatEmptySeq
  <2> QED
    BY <1>4, <1>6, <2>1, <2>3
<1>9. \A s \in Kept : s \in DOMAIN Arrived /\ ~Stale(next, s)
  OBVIOUS
<1> HIDE DEF Kept
<1>10. held' \in UNION {[S -> Number] : S \in SUBSET SeqNum}
  <2>1. Kept \in SUBSET SeqNum
    BY <1>5, <1>9
  <2>2. held' \in [Kept -> Number]
    BY <1>4, <1>5, <1>9
  <2> QED
    BY <2>1, <2>2
<1>11. HeldInv'
  <2>1. SUFFICES ASSUME NEW s \in Kept PROVE (next - s) % SeqMod \in 1..StaleWindow
    BY <1>4 DEF HeldInv
  <2>2. s \in SeqNum /\ s # next /\ ~((next - s) % SeqMod > StaleWindow)
    BY <1>3, <1>5, <1>9 DEF Stale
  <2>3. (next - s) % SeqMod \in SeqNum /\ ((next - s) % SeqMod = 0 => next = s)
    BY <1>6, <2>2, SeqDistance
  <2> QED
    BY <2>2, <2>3
<1> QED
  BY <1>1, <1>2, <1>7, <1>8, <1>10, <1>11

LEMMA StreamInitOK == StreamInit => StreamTypeOK /\ HeldInv
<1> SUFFICES ASSUME StreamInit PROVE StreamTypeOK /\ HeldInv
  OBVIOUS
<1> USE StreamFacts
<1>1. txSeq \in SeqNum /\ nextSeq \in SeqNum /\ count \in 0..PacketLimit
  BY DEF StreamInit
<1>2. wire \in Seq(Packet) /\ played \in Seq(Number)
  BY EmptyFacts DEF StreamInit
<1>3. packed \in [Stream -> {<<>>} \cup {<<p>> : p \in Packet}]
  BY DEF StreamInit
<1>4. held \in [{} -> Number] /\ DOMAIN held = {}
  BY DEF StreamInit
<1> QED
  BY <1>1, <1>2, <1>3, <1>4 DEF StreamTypeOK, HeldInv

\* A packet packed takes the current number and the next place of the order.
LEMMA PackFacts ==
    ASSUME StreamTypeOK, NEW t \in Stream, Pack(t)
    PROVE  /\ packed[t] = <<>> /\ count' = count + 1 /\ count' \in 0..PacketLimit
           /\ packed' = [packed EXCEPT ![t] = <<[seq |-> txSeq, no |-> count + 1]>>]
           /\ packed' \in [Stream -> {<<>>} \cup {<<p>> : p \in Packet}]
           /\ UNCHANGED <<txSeq, wire, nextSeq, held, played>>
<1> PICK p : p = [seq |-> txSeq, no |-> count + 1]
  OBVIOUS
<1>1. /\ packed[t] = <<>> /\ count < PacketLimit /\ count' = count + 1
      /\ packed' = [packed EXCEPT ![t] = <<p>>]
      /\ UNCHANGED <<txSeq, wire, nextSeq, held, played>>
  BY DEF Pack
<1>2. count + 1 \in Number /\ count' \in 0..PacketLimit
  BY <1>1, StreamFacts DEF StreamTypeOK, Number
<1>3. p \in Packet
  BY <1>2 DEF StreamTypeOK, Packet
<1>4. packed' \in [Stream -> {<<>>} \cup {<<q>> : q \in Packet}]
  BY <1>1, <1>3 DEF StreamTypeOK
<1> QED
  BY <1>1, <1>2, <1>4

\* A packet sent ends the wire, or is lost; its number is used up.
LEMMA SendFacts ==
    ASSUME StreamTypeOK, NEW t \in Stream, SendPacket(t)
    PROVE  /\ txSeq' = (txSeq + 1) % SeqMod /\ txSeq' \in SeqNum
           /\ packed' = [packed EXCEPT ![t] = <<>>]
           /\ packed' \in [Stream -> {<<>>} \cup {<<p>> : p \in Packet}]
           /\ \E p \in Packet : packed[t] = <<p>> /\ wire' \in {wire, Append(wire, p)}
           /\ wire' \in Seq(Packet)
           /\ UNCHANGED <<count, nextSeq, held, played>>
<1>1. /\ packed[t] # <<>> /\ txSeq' = (txSeq + 1) % SeqMod
      /\ wire' \in {wire, wire \o packed[t]}
      /\ packed' = [packed EXCEPT ![t] = <<>>]
      /\ UNCHANGED <<count, nextSeq, held, played>>
  BY DEF SendPacket
<1>2. txSeq' \in SeqNum
  <2>1. (txSeq + 1) % SeqMod \in SeqNum
    BY SeqDistance DEF StreamTypeOK
  <2> QED
    BY <1>1, <2>1
<1>3. packed' \in [Stream -> {<<>>} \cup {<<p>> : p \in Packet}]
  BY <1>1 DEF StreamTypeOK
<1>4. PICK p \in Packet : packed[t] = <<p>>
  BY <1>1 DEF StreamTypeOK
<1>5. wire \in Seq(Packet)
  BY DEF StreamTypeOK
<1>6. wire \o packed[t] = Append(wire, p)
  BY <1>4, <1>5, AppendIsConcat
<1>7. wire' \in {wire, Append(wire, p)}
  BY <1>1, <1>6
<1>8. wire' \in Seq(Packet)
  BY <1>5, <1>7, AppendFacts
<1> QED
  BY <1>1, <1>2, <1>3, <1>4, <1>7, <1>8

LEMMA StreamStep ==
    StreamTypeOK /\ HeldInv /\ [StreamNext]_streamVars => (StreamTypeOK /\ HeldInv)'
<1> SUFFICES ASSUME StreamTypeOK, HeldInv, [StreamNext]_streamVars
             PROVE  StreamTypeOK' /\ HeldInv'
  OBVIOUS
<1>1. ASSUME NEW t \in Stream, Pack(t) PROVE StreamTypeOK' /\ HeldInv'
  <2>1. /\ count' \in 0..PacketLimit
        /\ packed' \in [Stream -> {<<>>} \cup {<<p>> : p \in Packet}]
        /\ UNCHANGED <<txSeq, wire, nextSeq, held, played>>
    BY <1>1, PackFacts
  <2> QED
    BY <2>1 DEF StreamTypeOK, HeldInv
<1>2. ASSUME NEW t \in Stream, SendPacket(t) PROVE StreamTypeOK' /\ HeldInv'
  <2>1. /\ txSeq' \in SeqNum /\ wire' \in Seq(Packet)
        /\ packed' \in [Stream -> {<<>>} \cup {<<p>> : p \in Packet}]
        /\ UNCHANGED <<count, nextSeq, held, played>>
    BY <1>2, SendFacts
  <2> QED
    BY <2>1 DEF StreamTypeOK, HeldInv
<1>3. ASSUME OnRx PROVE StreamTypeOK' /\ HeldInv'
  <2> PICK p : p = Head(wire)
    OBVIOUS
  <2>1. /\ wire # <<>> /\ wire' = Tail(wire) /\ p \in Packet
        /\ UNCHANGED <<txSeq, packed, count>>
        /\ p.seq = nextSeq => /\ nextSeq' = (nextSeq + 1) % SeqMod
                              /\ played' = Append(played, p.no)
        /\ p.seq # nextSeq => nextSeq' = nextSeq /\ played' = played
        /\ held' \in UNION {[S -> Number] : S \in SUBSET SeqNum}
        /\ HeldInv'
    BY <1>3, ReceiveFacts
  <2>2. wire' \in Seq(Packet)
    BY <2>1, TailFacts DEF StreamTypeOK
  <2>3. nextSeq' \in SeqNum
    <3>1. (nextSeq + 1) % SeqMod \in SeqNum
      BY SeqDistance DEF StreamTypeOK
    <3> QED
      BY <2>1, <3>1 DEF StreamTypeOK
  <2>4. played' \in Seq(Number)
    <3>1. p.no \in Number
      BY <2>1 DEF Packet
    <3>2. Append(played, p.no) \in Seq(Number)
      BY <3>1, AppendFacts DEF StreamTypeOK
    <3> QED
      BY <2>1, <3>2 DEF StreamTypeOK
  <2> QED
    BY <2>1, <2>2, <2>3, <2>4 DEF StreamTypeOK
<1>4. ASSUME UNCHANGED streamVars PROVE StreamTypeOK' /\ HeldInv'
  BY <1>4 DEF streamVars, StreamTypeOK, HeldInv
<1> QED
  BY <1>1, <1>2, <1>3, <1>4 DEF StreamNext

LEMMA StreamInvariant == StreamSpec => [](StreamTypeOK /\ HeldInv)
BY StreamInitOK, StreamStep, PTL DEF StreamSpec

\* The numbers keep to their field, and what the buffer holds to its bounds.
THEOREM StreamTypeCorrect == StreamSpec => []StreamTypeOK
BY StreamInvariant, PTL

\* The distance back from one number tells the others apart.
LEMMA SameDistance ==
    ASSUME NEW m \in Nat \ {0, 1}, NEW x \in 0..(m - 1),
           NEW y \in 0..(m - 1), NEW z \in 0..(m - 1), (x - y) % m = (x - z) % m
    PROVE  y = z
<1>1. (x - y) % m = IF x >= y THEN x - y ELSE x - y + m
  OBVIOUS
<1>2. (x - z) % m = IF x >= z THEN x - z ELSE x - z + m
  OBVIOUS
<1> QED
  BY <1>1, <1>2

\* The reordering buffer holds StaleWindow packets at most, for any number of
\* senders, any losses and any size of the numbers.
THEOREM HeldIsBounded == StreamSpec => []HeldBounded
<1>1. ASSUME StreamTypeOK, HeldInv PROVE HeldBounded
  <2> DEFINE D == DOMAIN held
             W == 1..StaleWindow
             f == [s \in D |-> (nextSeq - s) % SeqMod]
  <2>1. D \subseteq SeqNum /\ nextSeq \in SeqNum
    BY <1>1 DEF StreamTypeOK
  <2>2. f \in [D -> W]
    BY <1>1 DEF HeldInv
  <2>3. \A s, t \in D : f[s] = f[t] => s = t
    BY <2>1, StreamFacts, SameDistance
  <2>4. f \in Injection(D, W)
    BY <2>2, <2>3, Zenon DEF Injection, IsInjective
  <2>5. 1 \in Int /\ StaleWindow \in Int /\ StaleWindow >= 0
    BY StreamFacts
  <2>6. /\ IsFiniteSet(W)
        /\ Cardinality(W) = IF 1 > StaleWindow THEN 0 ELSE StaleWindow - 1 + 1
    BY <2>5, FS_Interval, Zenon
  <2>7. Cardinality(W) = StaleWindow
    BY <2>5, <2>6
  <2> HIDE DEF D, W, f
  <2>8. Cardinality(D) <= Cardinality(W)
    BY <2>4, <2>6, FS_Injection
  <2> QED
    BY <2>7, <2>8 DEF HeldBounded, D
<1> QED
  BY <1>1, StreamInvariant, PTL

-----------------------------------------------------------------------------
(* One sender: the numbers run in the order of the packets, modulo the     *)
(* sequence space, on the wire and up to the packet played last.           *)

OneStream == \A t, u \in Stream : t = u

\* Packets that are sent or dropped: all packed but the one that waits.
Sent == IF \E t \in Stream : packed[t] # <<>> THEN count - 1 ELSE count

LastPlayed == IF played = <<>> THEN 0 ELSE played[Len(played)]

SenderInv ==
    /\ txSeq = Sent % SeqMod
    /\ \A t \in Stream : packed[t] # <<>> =>
          count > 0 /\ packed[t] = <<[seq |-> (count - 1) % SeqMod, no |-> count]>>

WireInv ==
    /\ \A i \in 1..Len(wire) : /\ wire[i].seq = (wire[i].no - 1) % SeqMod
                               /\ wire[i].no > LastPlayed /\ wire[i].no <= Sent
    /\ \A i, j \in 1..Len(wire) : i < j => wire[i].no < wire[j].no

PlayedInv ==
    /\ nextSeq = LastPlayed % SeqMod /\ LastPlayed <= Sent
    /\ PlayedInOrder

OneStreamInv == SenderInv /\ WireInv /\ PlayedInv

LEMMA OneStreamTypes ==
    ASSUME StreamTypeOK, OneStreamInv
    PROVE  /\ LastPlayed \in Nat /\ Sent \in Nat /\ count \in Nat
           /\ SeqMod \in Nat \ {0, 1}
           /\ Len(wire) \in Nat /\ Len(played) \in Nat
           /\ \A i \in 1..Len(wire) : wire[i] \in Packet /\ wire[i].no \in Nat
           /\ \A i \in 1..Len(played) : played[i] \in Nat
<1>1. count \in Nat /\ SeqMod \in Nat \ {0, 1} /\ \A n \in Number : n \in Nat
  BY StreamFacts DEF StreamTypeOK, Number
<1>2. Len(wire) \in Nat /\ Len(played) \in Nat
  BY LenProperties DEF StreamTypeOK
<1>3. \A i \in 1..Len(wire) : wire[i] \in Packet
  BY <1>2, ElementOfSeq DEF StreamTypeOK
<1>4. \A i \in 1..Len(played) : played[i] \in Number
  BY <1>2, ElementOfSeq DEF StreamTypeOK
<1>5. LastPlayed \in Nat
  <2>1. played # <<>> => Len(played) \in 1..Len(played)
    BY <1>2, EmptySeq DEF StreamTypeOK
  <2> QED
    BY <1>1, <1>4, <2>1 DEF LastPlayed
<1>6. Sent \in Nat
  <2>1. (\E t \in Stream : packed[t] # <<>>) => count > 0
    BY DEF OneStreamInv, SenderInv
  <2> QED
    BY <1>1, <2>1 DEF Sent
<1>7. \A i \in 1..Len(wire) : wire[i].no \in Nat
  BY <1>1, <1>3 DEF Packet
<1> QED
  BY <1>1, <1>2, <1>3, <1>4, <1>5, <1>6, <1>7

LEMMA OneStreamInit == StreamInit => OneStreamInv
<1> SUFFICES ASSUME StreamInit PROVE OneStreamInv
  OBVIOUS
<1>1. /\ wire = <<>> /\ played = <<>> /\ count = 0 /\ txSeq = 0 /\ nextSeq = 0
      /\ \A t \in Stream : packed[t] = <<>>
  BY DEF StreamInit
<1>2. Len(wire) = 0 /\ Len(played) = 0
  BY <1>1, EmptySeq
<1>3. Sent = 0 /\ LastPlayed = 0
  BY <1>1 DEF Sent, LastPlayed
<1>4. 0 % SeqMod = 0
  BY StreamFacts
<1>5. SenderInv
  BY <1>1, <1>3, <1>4 DEF SenderInv
<1>6. WireInv
  BY <1>2 DEF WireInv
<1>7. PlayedInv
  BY <1>1, <1>2, <1>3, <1>4 DEF PlayedInv, PlayedInOrder
<1> QED
  BY <1>5, <1>6, <1>7 DEF OneStreamInv

\* Packing leaves what is sent and what is played alone.
LEMMA OneStreamPack ==
    ASSUME StreamTypeOK, OneStreamInv, OneStream, NEW t \in Stream, Pack(t)
    PROVE  OneStreamInv'
<1>1. /\ packed[t] = <<>> /\ count' = count + 1
      /\ packed' = [packed EXCEPT ![t] = <<[seq |-> txSeq, no |-> count + 1]>>]
      /\ UNCHANGED <<txSeq, wire, nextSeq, held, played>>
  BY PackFacts
<1>2. count \in Nat /\ \A u \in Stream : u = t
  BY OneStreamTypes DEF OneStream
<1>3. packed'[t] = <<[seq |-> txSeq, no |-> count + 1]>>
  BY <1>1 DEF StreamTypeOK
<1>4. Sent = count
  BY <1>1, <1>2 DEF Sent
<1>5. packed'[t] # <<>>
  BY <1>3
<1>6. Sent' = count
  <2>1. Sent' = count' - 1
    BY <1>2, <1>5 DEF Sent
  <2> QED
    BY <1>1, <1>2, <2>1
<1>7. LastPlayed' = LastPlayed
  BY <1>1 DEF LastPlayed
<1>8. SenderInv'
  <2>1. txSeq = count % SeqMod
    BY <1>4 DEF OneStreamInv, SenderInv
  <2>2. count' > 0 /\ count' - 1 = count /\ count' = count + 1
    BY <1>1, <1>2
  <2>3. packed'[t] = <<[seq |-> (count' - 1) % SeqMod, no |-> count']>>
    BY <1>3, <2>1, <2>2
  <2> QED
    BY <1>1, <1>2, <1>6, <2>1, <2>2, <2>3 DEF SenderInv
<1>9. WireInv'
  BY <1>1, <1>4, <1>6, <1>7 DEF OneStreamInv, WireInv
<1>10. PlayedInv'
  BY <1>1, <1>4, <1>6, <1>7 DEF OneStreamInv, PlayedInv, PlayedInOrder
<1> QED
  BY <1>8, <1>9, <1>10 DEF OneStreamInv

\* Sending uses up the number and the place of the packet, also of a lost one.
LEMMA OneStreamSend ==
    ASSUME StreamTypeOK, OneStreamInv, OneStream, NEW t \in Stream, SendPacket(t)
    PROVE  OneStreamInv'
<1>1. /\ txSeq' = (txSeq + 1) % SeqMod
      /\ packed' = [packed EXCEPT ![t] = <<>>]
      /\ UNCHANGED <<count, nextSeq, held, played>>
  BY SendFacts
<1>2. PICK p \in Packet : packed[t] = <<p>> /\ wire' \in {wire, Append(wire, p)}
  BY SendFacts
<1>3. /\ count \in Nat /\ Sent \in Nat /\ LastPlayed \in Nat /\ SeqMod \in Nat \ {0, 1}
      /\ Len(wire) \in Nat
      /\ \A i \in 1..Len(wire) : wire[i].no \in Nat
      /\ \A u \in Stream : u = t
  BY OneStreamTypes DEF OneStream
<1>4. packed[t] # <<>>
  BY <1>2
<1>5. Sent = count - 1
  BY <1>4 DEF Sent
<1>6. /\ count > 0 /\ p.seq = (count - 1) % SeqMod /\ p.no = count
      /\ txSeq = (count - 1) % SeqMod
  <2>1. count > 0 /\ packed[t] = <<[seq |-> (count - 1) % SeqMod, no |-> count]>>
    BY <1>4 DEF OneStreamInv, SenderInv
  <2>2. p = [seq |-> (count - 1) % SeqMod, no |-> count]
    BY <1>2, <2>1
  <2>3. txSeq = (count - 1) % SeqMod
    BY <1>5 DEF OneStreamInv, SenderInv
  <2> QED
    BY <2>1, <2>2, <2>3
<1>7. \A u \in Stream : packed'[u] = <<>>
  BY <1>1, <1>3 DEF StreamTypeOK
<1>8. Sent' = count /\ LastPlayed' = LastPlayed
  BY <1>1, <1>7 DEF Sent, LastPlayed
<1>9. SenderInv'
  <2>1. count - 1 \in Nat /\ count - 1 + 1 = count
    BY <1>3, <1>6
  <2>2. (((count - 1) % SeqMod) + 1) % SeqMod = (count - 1 + 1) % SeqMod
    BY <1>3, <2>1, ReducedSum
  <2>3. txSeq' = count % SeqMod
    BY <1>1, <1>6, <2>1, <2>2
  <2> QED
    BY <1>7, <1>8, <2>3 DEF SenderInv
<1>10. LastPlayed <= count - 1
  BY <1>5 DEF OneStreamInv, PlayedInv
<1>11. /\ \A i \in 1..Len(wire) : /\ wire[i].seq = (wire[i].no - 1) % SeqMod
                                  /\ wire[i].no > LastPlayed /\ wire[i].no <= count - 1
       /\ \A i, j \in 1..Len(wire) : i < j => wire[i].no < wire[j].no
  BY <1>5 DEF OneStreamInv, WireInv
<1>12. WireInv'
  <2>1. CASE wire' = wire
    <3>1. \A i \in 1..Len(wire) : wire[i].no <= count
      BY <1>3, <1>11
    <3> QED
      BY <1>8, <1>11, <2>1, <3>1 DEF WireInv
  <2>2. CASE wire' = Append(wire, p)
    <3>1. /\ Len(wire') = Len(wire) + 1
          /\ \A i \in 1..Len(wire) : wire'[i] = wire[i]
          /\ wire'[Len(wire) + 1] = p
      BY <2>2, AppendFacts DEF StreamTypeOK
    <3>2. \A i \in 1..Len(wire') : i \in 1..Len(wire) \/ i = Len(wire) + 1
      BY <1>3, <3>1
    <3>3. ASSUME NEW i \in 1..Len(wire')
          PROVE  /\ wire'[i].seq = (wire'[i].no - 1) % SeqMod
                 /\ wire'[i].no > LastPlayed /\ wire'[i].no <= count
      <4>1. CASE i \in 1..Len(wire)
        <5>1. wire[i].no <= count
          BY <1>3, <1>11, <4>1
        <5> QED
          BY <1>11, <3>1, <4>1, <5>1
      <4>2. CASE i = Len(wire) + 1
        <5>1. count > LastPlayed /\ count <= count
          BY <1>3, <1>10
        <5> QED
          BY <1>6, <3>1, <4>2, <5>1
      <4> QED
        BY <3>2, <4>1, <4>2
    <3>4. ASSUME NEW i \in 1..Len(wire'), NEW j \in 1..Len(wire'), i < j
          PROVE  wire'[i].no < wire'[j].no
      <4>1. i \in 1..Len(wire)
        BY <1>3, <3>1, <3>4
      <4>2. CASE j \in 1..Len(wire)
        BY <1>11, <3>1, <3>4, <4>1, <4>2
      <4>3. CASE j = Len(wire) + 1
        <5>1. wire[i].no < count
          BY <1>3, <1>11, <4>1
        <5> QED
          BY <1>6, <3>1, <4>1, <4>3, <5>1
      <4> QED
        BY <3>2, <4>2, <4>3
    <3> QED
      BY <1>8, <3>3, <3>4 DEF WireInv
  <2> QED
    BY <1>2, <2>1, <2>2
<1>13. PlayedInv'
  <2>1. LastPlayed <= count
    BY <1>3, <1>10
  <2> QED
    BY <1>1, <1>8, <2>1 DEF OneStreamInv, PlayedInv, PlayedInOrder
<1> QED
  BY <1>9, <1>12, <1>13 DEF OneStreamInv

\* The packet taken off the wire is numbered one after what was played last,
\* modulo the sequence space, or it is not played.
LEMMA OneStreamReceive ==
    ASSUME StreamTypeOK, HeldInv, OneStreamInv, OnRx
    PROVE  OneStreamInv'
<1> PICK p : p = Head(wire)
  OBVIOUS
<1>1. /\ wire # <<>> /\ wire' = Tail(wire) /\ p \in Packet
      /\ UNCHANGED <<txSeq, packed, count>>
      /\ p.seq = nextSeq => /\ nextSeq' = (nextSeq + 1) % SeqMod
                            /\ played' = Append(played, p.no)
      /\ p.seq # nextSeq => nextSeq' = nextSeq /\ played' = played
  BY ReceiveFacts
<1>2. /\ LastPlayed \in Nat /\ Sent \in Nat /\ SeqMod \in Nat \ {0, 1}
      /\ Len(wire) \in Nat /\ Len(played) \in Nat
      /\ \A i \in 1..Len(wire) : wire[i].no \in Nat
      /\ \A i \in 1..Len(played) : played[i] \in Nat
  BY OneStreamTypes
<1>3. /\ Len(wire') = Len(wire) - 1
      /\ \A i \in 1..Len(wire') : wire'[i] = wire[i + 1]
  BY <1>1, TailFacts DEF StreamTypeOK
<1>4. p = wire[1] /\ Len(wire) # 0
  BY <1>1, <1>2, EmptySeq DEF StreamTypeOK
<1>5. 1 \in 1..Len(wire) /\ \A i \in 1..Len(wire') : i + 1 \in 1..Len(wire) /\ 1 < i + 1
  BY <1>2, <1>3, <1>4
<1>6. /\ \A i \in 1..Len(wire) : /\ wire[i].seq = (wire[i].no - 1) % SeqMod
                                 /\ wire[i].no > LastPlayed /\ wire[i].no <= Sent
      /\ \A i, j \in 1..Len(wire) : i < j => wire[i].no < wire[j].no
  BY DEF OneStreamInv, WireInv
<1>7. /\ p.no \in Nat /\ p.seq = (p.no - 1) % SeqMod /\ p.no > LastPlayed /\ p.no <= Sent
      /\ \A i \in 1..Len(wire') : wire'[i].no > p.no
  <2>1. p.no \in Nat /\ p.seq = (p.no - 1) % SeqMod /\ p.no > LastPlayed /\ p.no <= Sent
    BY <1>2, <1>4, <1>5, <1>6
  <2>2. ASSUME NEW i \in 1..Len(wire') PROVE wire'[i].no > p.no
    <3>1. wire[1].no < wire[i + 1].no /\ wire[i + 1].no \in Nat /\ wire[1].no \in Nat
      BY <1>2, <1>5, <1>6
    <3>2. wire[i + 1].no > wire[1].no
      BY <3>1
    <3> QED
      BY <1>3, <1>4, <3>2
  <2> QED
    BY <2>1, <2>2
<1>8. Sent' = Sent
  BY <1>1 DEF Sent
<1>9. SenderInv'
  BY <1>1, <1>8 DEF OneStreamInv, SenderInv
<1>10. /\ \A i \in 1..Len(wire') : /\ wire'[i].seq = (wire'[i].no - 1) % SeqMod
                                   /\ wire'[i].no > LastPlayed /\ wire'[i].no <= Sent
       /\ \A i, j \in 1..Len(wire') : i < j => wire'[i].no < wire'[j].no
  <2>1. ASSUME NEW i \in 1..Len(wire')
        PROVE  /\ wire'[i].seq = (wire'[i].no - 1) % SeqMod
               /\ wire'[i].no > LastPlayed /\ wire'[i].no <= Sent
    BY <1>3, <1>5, <1>6
  <2>2. ASSUME NEW i \in 1..Len(wire'), NEW j \in 1..Len(wire'), i < j
        PROVE  wire'[i].no < wire'[j].no
    <3>1. i + 1 < j + 1
      BY <1>3, <2>2
    <3> QED
      BY <1>3, <1>5, <1>6, <3>1
  <2> QED
    BY <2>1, <2>2
<1>11. /\ nextSeq = LastPlayed % SeqMod /\ LastPlayed <= Sent
       /\ PlayedInOrder
  BY DEF OneStreamInv, PlayedInv
<1>12. CASE p.seq # nextSeq
  <2>1. played' = played /\ nextSeq' = nextSeq /\ LastPlayed' = LastPlayed
    BY <1>1, <1>12 DEF LastPlayed
  <2>2. WireInv'
    BY <1>8, <1>10, <2>1 DEF WireInv
  <2>3. PlayedInv'
    BY <1>8, <1>11, <2>1 DEF PlayedInv, PlayedInOrder
  <2> QED
    BY <1>9, <2>2, <2>3 DEF OneStreamInv
<1>13. CASE p.seq = nextSeq
  <2>1. nextSeq' = (nextSeq + 1) % SeqMod /\ played' = Append(played, p.no)
    BY <1>1, <1>13
  <2>2. /\ Len(played') = Len(played) + 1 /\ played' # <<>>
        /\ \A i \in 1..Len(played) : played'[i] = played[i]
        /\ played'[Len(played) + 1] = p.no
    <3>1. p.no \in Number
      BY <1>1 DEF Packet
    <3> QED
      BY <2>1, <3>1, AppendProperties DEF StreamTypeOK
  <2>3. LastPlayed' = p.no
    BY <2>2 DEF LastPlayed
  <2>4. WireInv'
    BY <1>7, <1>8, <1>10, <2>3 DEF WireInv
  <2>5. p.no - 1 \in Nat /\ p.no - 1 + 1 = p.no
    <3> PICK n \in Nat : n = p.no /\ n > LastPlayed
      BY <1>7
    <3>1. n - 1 \in Nat /\ n - 1 + 1 = n
      BY <1>2
    <3> QED
      BY <3>1
  <2>6. nextSeq' = p.no % SeqMod
    <3>1. (((p.no - 1) % SeqMod) + 1) % SeqMod = (p.no - 1 + 1) % SeqMod
      BY <1>2, <2>5, ReducedSum
    <3> QED
      BY <1>7, <1>13, <2>1, <2>5, <3>1
  <2>8. ASSUME NEW i \in 1..(Len(played') - 1)
        PROVE  played'[i] < played'[i + 1]
    <3>1. i \in 1..(Len(played) - 1) \/ i = Len(played)
      BY <1>2, <2>2
    <3>2. CASE i \in 1..(Len(played) - 1)
      <4>1. i \in 1..Len(played) /\ i + 1 \in 1..Len(played)
        BY <1>2, <3>2
      <4>2. played'[i] = played[i] /\ played'[i + 1] = played[i + 1]
        BY <2>2, <4>1
      <4>3. played[i] < played[i + 1]
        BY <1>11, <3>2 DEF PlayedInOrder
      <4> QED
        BY <4>2, <4>3
    <3>3. CASE i = Len(played)
      <4>1. Len(played) # 0 /\ i \in 1..Len(played)
        BY <1>2, <2>2, <3>3
      <4>2. played # <<>>
        BY <4>1, EmptySeq
      <4>3. played'[i] = LastPlayed /\ played'[i + 1] = p.no
        BY <2>2, <3>3, <4>1, <4>2 DEF LastPlayed
      <4>4. LastPlayed < p.no
        BY <1>2, <1>7
      <4> QED
        BY <4>3, <4>4
    <3> QED
      BY <3>1, <3>2, <3>3
  <2>9. PlayedInv'
    BY <1>7, <1>8, <2>3, <2>6, <2>8 DEF PlayedInv, PlayedInOrder
  <2> QED
    BY <1>9, <2>4, <2>9 DEF OneStreamInv
<1> QED
  BY <1>12, <1>13

LEMMA OneStreamStutter ==
    ASSUME OneStreamInv, UNCHANGED streamVars PROVE OneStreamInv'
BY DEF streamVars, OneStreamInv, SenderInv, WireInv, PlayedInv, PlayedInOrder,
       Sent, LastPlayed

LEMMA OneStreamStep ==
    ASSUME StreamTypeOK, HeldInv, OneStreamInv, OneStream, [StreamNext]_streamVars
    PROVE  OneStreamInv'
BY OneStreamPack, OneStreamSend, OneStreamReceive, OneStreamStutter DEF StreamNext

LEMMA OneStreamInvariant == OneStream => (StreamSpec => []OneStreamInv)
<1> SUFFICES ASSUME OneStream PROVE StreamSpec => []OneStreamInv
  OBVIOUS
<1>1. StreamTypeOK /\ HeldInv /\ OneStreamInv /\ [StreamNext]_streamVars => OneStreamInv'
  BY OneStreamStep
<1> QED
  BY <1>1, OneStreamInit, StreamInvariant, PTL DEF StreamSpec

\* With one sender, whatever is lost and however long the stream: packets are
\* played in the order they were packed, none twice.
THEOREM OneStreamInOrder == OneStream => (StreamSpec => []PlayedInOrder)
<1>1. OneStreamInv => PlayedInOrder
  BY DEF OneStreamInv, PlayedInv
<1> QED
  BY <1>1, OneStreamInvariant, PTL
=============================================================================
