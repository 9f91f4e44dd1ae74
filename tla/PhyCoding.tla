----------------------------- MODULE PhyCoding -----------------------------
(***************************************************************************)
(* The arithmetic of the OFDM frame in phy/phy_ofdm.py: how many symbols a *)
(* payload takes, computed by the transmitter from the bits it keeps and   *)
(* by the receiver from a closed form, and the order of the coded bits     *)
(* within a symbol.  The bits themselves do not matter here.               *)
(***************************************************************************)
EXTENDS Integers, Sequences, FiniteSets

Mcs == 0..6

\* MCS_TABLE: bits per carrier, the puncturing pattern of the code rate
\* (1/2, 2/3 or 3/4), and coded bits per symbol.
ModOrder == <<1, 2, 2, 4, 4, 6, 6>>
Half == <<1>>
TwoThirds == <<1, 1, 1, 0>>
ThreeQuarters == <<1, 1, 1, 0, 0, 1>>
Rate == <<Half, Half, ThreeQuarters, Half, ThreeQuarters, TwoThirds, ThreeQuarters>>
Carriers == 48
Cbps(m) == Carriers * ModOrder[m + 1]

\* SIGNAL has 14 bits for the length.
LenMod == 16384

\* Payload and CRC-32, in bits.
InfoBits(n) == (n + 4) * 8

\* conv_encode: two bits out for one in, and six in for the tail.
EncodedBits(n) == 2 * (InfoBits(n) + 6)

Ones(p, k) == Cardinality({i \in 1..k : p[i] = 1})

\* puncture: the pattern is repeated over the encoded bits.
Kept(p, k) == Cardinality({i \in 0..(k - 1) : p[(i % Len(p)) + 1] = 1})

\* Whole symbols for k bits.
SymbolsFor(m, k) == (k + Cbps(m) - 1) \div Cbps(m)

\* What tx_frame sends: the kept bits, padded to whole symbols.
TxSyms(m, n) == SymbolsFor(m, Kept(Rate[m + 1], EncodedBits(n)))

\* Fault: _calc_n_enc forgets the tail bits.
EncNoTail(m, n) ==
    LET p == Rate[m + 1]
        k == 2 * InfoBits(n)
    IN  (k \div Len(p)) * Ones(p, Len(p)) + Ones(p, k % Len(p))

\* _calc_n_enc
CalcEnc(m, n) ==
    LET p == Rate[m + 1]
        k == EncodedBits(n)
    IN  (k \div Len(p)) * Ones(p, Len(p)) + Ones(p, k % Len(p))

RxSyms(m, n) == SymbolsFor(m, CalcEnc(m, n))

\* Both interleaver permutations work in groups of half the bits per carrier.
Group(m) == IF ModOrder[m + 1] = 1 THEN 1 ELSE ModOrder[m + 1] \div 2

InterleavePerm(m) ==
    LET N == Cbps(m)
        s == Group(m)
        p1(k) == ((N \div 16) * (k % 16)) + (k \div 16)
    IN  [k \in 0..(N - 1) |->
            (s * (p1(k) \div s)) + ((p1(k) + (N - ((16 * p1(k)) \div N))) % s)]

\* Fault: the rotation of the inverse has the sign of the forward one.
DeinterleaveSameSign(m) ==
    LET N == Cbps(m)
        s == Group(m)
        p2(j) == (s * (j \div s)) + ((j + (N - ((16 * j) \div N))) % s)
    IN  [j \in 0..(N - 1) |-> (16 * (p2(j) % (N \div 16))) + (p2(j) \div (N \div 16))]

DeinterleavePerm(m) ==
    LET N == Cbps(m)
        s == Group(m)
        p2(j) == (s * (j \div s)) + ((j + ((16 * j) \div N)) % s)
    IN  [j \in 0..(N - 1) |-> (16 * (p2(j) % (N \div 16))) + (p2(j) \div (N \div 16))]

\* out = chunk[perm] on both sides: position j of the receiver's block holds
\* the bit the transmitter had at perm[inverse[j]].
RestoredMcs == {m \in Mcs : \A j \in 0..(Cbps(m) - 1) :
                    InterleavePerm(m)[DeinterleavePerm(m)[j]] = j}
=============================================================================
