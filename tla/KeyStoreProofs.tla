--------------------------- MODULE KeyStoreProofs ---------------------------
(***************************************************************************)
(* Proofs about KeyStore, for any nodes, contacts and group keys and any   *)
(* number of key pairs and frames.                                         *)
(***************************************************************************)
EXTENDS KeyStore, TLAPS

LEMMA KeyFacts ==
    /\ KeyLimit \in Nat /\ Torn \in Nat
    /\ \A k \in Key : k \in Nat /\ k > 0 /\ k # Torn /\ k \in File /\ k \in 0..KeyLimit
    /\ Absent = 0 /\ 0 \in File /\ 0 \in 0..KeyLimit /\ Torn \in File
    /\ 0 \notin Key /\ Torn \notin Key /\ Torn # 0
    /\ \A k \in 0..KeyLimit : k \in Nat /\ (k # 0 => k \in Key)
<1>1. KeyLimit \in Nat
  BY KeyStoreAssumption
<1> QED
  BY <1>1 DEF Torn, Key, File, Absent

LEMMA NoPeersTyped == NoPeers \in [Owner -> 0..KeyLimit] /\ NoPeers \in [Owner -> File]
BY KeyFacts DEF NoPeers

LEMMA LoadedTyped ==
    ASSUME KeyTypeOK, NEW n \in Owner
    PROVE  /\ LoadedPeers(n) \in [Owner -> 0..KeyLimit]
           /\ \A m \in Owner : LoadedPeers(n)[m] # 0 =>
                  LoadedPeers(n)[m] = peerFile[n][m] /\ peerFile[n][m] \in Key
<1>1. \A m \in Owner : peerFile[n][m] \in File
  BY DEF KeyTypeOK
<1> QED
  BY <1>1, KeyFacts DEF LoadedPeers, Absent

-----------------------------------------------------------------------------
(* Types                                                                   *)

LEMMA KeyInitType == KeyInit => KeyTypeOK
<1> SUFFICES ASSUME KeyInit PROVE KeyTypeOK
  OBVIOUS
<1>1. [n \in Owner |-> NoPeers] \in [Owner -> [Owner -> File]]
      /\ [n \in Owner |-> NoPeers] \in [Owner -> [Owner -> 0..KeyLimit]]
  BY NoPeersTyped
<1> QED
  BY <1>1, NoPeersTyped, KeyFacts DEF KeyInit, KeyTypeOK

LEMMA KeyNextType == KeyTypeOK /\ [KeyNext]_keyVars => KeyTypeOK'
<1> SUFFICES ASSUME KeyTypeOK, [KeyNext]_keyVars PROVE KeyTypeOK'
  OBVIOUS
<1>0. /\ \A n \in Owner : mem[n] \in 0..KeyLimit /\ mem[n] \in File
      /\ \A n \in Owner : priv[n] \in File /\ pub[n] \in File
      /\ \A k \in 0..KeyLimit : k \in File
  BY KeyFacts DEF KeyTypeOK, File, Torn
<1>1. ASSUME NEW n \in Owner, Load(n) PROVE KeyTypeOK'
  <2>1. priv[n] \in 0..KeyLimit
    BY <1>1, KeyFacts DEF Load
  <2> QED
    BY <1>1, <2>1, LoadedTyped DEF Load, Ready, keyFiles, KeyTypeOK
<1>2. ASSUME NEW n \in Owner, Generate(n) PROVE KeyTypeOK'
  <2>1. drawn + 1 \in 0..KeyLimit
    BY <1>2, KeyFacts DEF Generate, KeyTypeOK
  <2> QED
    BY <1>2, <2>1, KeyFacts DEF Generate, KeyTypeOK
<1>3. ASSUME NEW n \in Owner, WritePrivate(n) PROVE KeyTypeOK'
  BY <1>0, <1>3 DEF WritePrivate, KeyTypeOK
<1>4. ASSUME NEW n \in Owner, OpenPublic(n) PROVE KeyTypeOK'
  BY <1>4, KeyFacts DEF OpenPublic, KeyTypeOK
<1>5. ASSUME NEW n \in Owner, WritePublic(n) PROVE KeyTypeOK'
  BY <1>0, <1>5, LoadedTyped DEF WritePublic, Ready, KeyTypeOK
<1>6. ASSUME NEW n \in Owner, EndProcess(n) PROVE KeyTypeOK'
  BY <1>6, NoPeersTyped, KeyFacts DEF EndProcess, keyFiles, KeyTypeOK
<1>7. ASSUME NEW n \in Owner, Publish(n) PROVE KeyTypeOK'
  BY <1>7 DEF Publish, keyFiles, KeyTypeOK
<1>8. ASSUME NEW n \in Owner, EncryptBroadcast(n) PROVE KeyTypeOK'
  <2>1. Group[n] \in Nat
    BY KeyStoreAssumption
  <2>2. GroupFrame(n) \in [to : Owner \cup {"broadcast"}, key : Nat]
    BY <2>1 DEF GroupFrame
  <2> QED
    BY <1>8, <2>2 DEF EncryptBroadcast, keyFiles, KeyTypeOK
<1>9. ASSUME NEW n \in Owner, NEW m \in Owner, AddPeer(n, m) PROVE KeyTypeOK'
  <2>1. PICK k \in Key : peers' = [peers EXCEPT ![n][m] = k]
    BY <1>9 DEF AddPeer
  <2>2. k \in 0..KeyLimit
    BY KeyFacts
  <2> QED
    BY <1>9, <2>1, <2>2 DEF AddPeer, keyFiles, KeyTypeOK
<1>10. ASSUME NEW n \in Owner, NEW m \in Owner, SaveOpens(n, m) PROVE KeyTypeOK'
  <2>1. PICK k \in Key : saving' = [saving EXCEPT ![n] = <<m, k>>]
    BY <1>10 DEF SaveOpens
  <2>2. peerFile' = [peerFile EXCEPT ![n][m] = Torn] /\ Torn \in File
    BY <1>10, KeyFacts DEF SaveOpens
  <2> QED
    BY <1>10, <2>1, <2>2 DEF SaveOpens, KeyTypeOK
<1>15. ASSUME NEW n \in Owner, NEW m \in Owner, SaveInvalid(n, m) PROVE KeyTypeOK'
  BY <1>15, KeyFacts DEF SaveInvalid, KeyTypeOK
<1>11. ASSUME NEW n \in Owner, NEW m \in Owner, SaveWrites(n, m) PROVE KeyTypeOK'
  <2>1. PICK k \in Key : /\ peerFile' = [peerFile EXCEPT ![n][m] = k]
                         /\ peers' = [peers EXCEPT ![n][m] = k]
    BY <1>11 DEF SaveWrites
  <2>2. k \in 0..KeyLimit /\ k \in File
    BY KeyFacts
  <2> QED
    BY <1>11, <2>1, <2>2 DEF SaveWrites, KeyTypeOK
<1>12. ASSUME NEW n \in Owner, NEW m \in Owner, Encrypt(n, m) PROVE KeyTypeOK'
  <2>1. peers[n][m] \in Nat
    BY KeyFacts DEF KeyTypeOK
  <2>2. EciesFrame(m, peers[n][m]) \in [to : Owner \cup {"broadcast"}, key : Nat]
    BY <2>1 DEF EciesFrame
  <2> QED
    BY <1>12, <2>2 DEF Encrypt, keyFiles, KeyTypeOK
<1>13. CASE UNCHANGED keyVars
  BY <1>13 DEF keyVars, KeyTypeOK
<1>14. \A n \in Owner : \A m \in Contact[n] : m \in Owner
  BY KeyStoreAssumption
<1> QED
  BY <1>1, <1>2, <1>3, <1>4, <1>5, <1>6, <1>7, <1>8, <1>9, <1>10, <1>11, <1>12,
     <1>13, <1>14, <1>15 DEF KeyNext, KeyStep

\* The key files, the steps of load_or_generate and the frames have their types.
THEOREM KeyTypeCorrect == KeySpec => []KeyTypeOK
BY KeyInitType, KeyNextType, PTL DEF KeySpec

-----------------------------------------------------------------------------
(* Identity                                                                *)

\* A node's memory, its files and what others were given agree on its key.
OwnInv == \A n \in Owner :
    /\ pc[n] = "off" <=> mem[n] = 0
    /\ pc[n] = "private" => priv[n] = Torn
    /\ pc[n] \in {"open", "public", "ready"} => priv[n] = mem[n]
    /\ pub[n] \in Key => priv[n] = pub[n]
    /\ \A k \in Key : <<n, k>> \in published => priv[n] = k

\* No two nodes have the same key; keys not yet drawn are nobody's.
FreshInv ==
    /\ \A n \in Owner : /\ priv[n] \in Key => priv[n] <= drawn
                        /\ mem[n] <= drawn
    /\ \A n, m \in Owner : n # m =>
          /\ priv[n] \in Key => priv[n] # priv[m] /\ priv[n] # mem[m]
          /\ mem[n] # 0 => mem[n] # mem[m]

\* A key held for a peer, or used for it, was given out by the peer.
GivenInv ==
    /\ \A n, m \in Owner :
          /\ peers[n][m] # 0 => <<m, peers[n][m]>> \in published
          /\ peerFile[n][m] \in Key => <<m, peerFile[n][m]>> \in published
    /\ \A n \in Owner : saving[n] # <<>> => saving[n] \in published
    /\ \A f \in frames : f.to # "broadcast" => <<f.to, f.key>> \in published

KeyInv == KeyTypeOK /\ OwnInv /\ FreshInv /\ GivenInv

LEMMA KeyInitInv == KeyInit => OwnInv /\ FreshInv /\ GivenInv
<1> SUFFICES ASSUME KeyInit PROVE OwnInv /\ FreshInv /\ GivenInv
  OBVIOUS
<1>1. \A n \in Owner : priv[n] = 0 /\ pub[n] = 0 /\ mem[n] = 0 /\ pc[n] = "off"
                       /\ saving[n] = <<>>
  BY DEF KeyInit, NoPeers, Absent
<1>2. \A n, m \in Owner : peers[n][m] = 0 /\ peerFile[n][m] = 0
  BY DEF KeyInit, NoPeers, Absent
<1> QED
  BY <1>1, <1>2, KeyFacts DEF KeyInit, OwnInv, FreshInv, GivenInv

LEMMA OwnNext == KeyInv /\ [KeyNext]_keyVars => OwnInv'
<1> SUFFICES ASSUME KeyInv, [KeyNext]_keyVars PROVE OwnInv'
  OBVIOUS
<1> USE DEF KeyInv
<1>0. \A n \in Owner : /\ mem[n] \in 0..KeyLimit
                       /\ mem[n] # 0 => mem[n] \in Key
                       /\ mem[n] # Torn
  BY KeyFacts DEF KeyTypeOK
<1>1. ASSUME NEW n \in Owner, Load(n) PROVE OwnInv'
  BY <1>1, KeyFacts DEF Load, Ready, keyFiles, KeyTypeOK, OwnInv
<1>2. ASSUME NEW n \in Owner, Generate(n) PROVE OwnInv'
  <2>1. drawn + 1 \in Nat /\ drawn + 1 # 0
    BY KeyFacts DEF KeyTypeOK
  <2>2. pub[n] \notin Key /\ \A k \in Key : <<n, k>> \notin published
    BY <1>2, KeyFacts DEF Generate, OwnInv
  <2> QED
    BY <1>2, <2>1, <2>2, KeyFacts DEF Generate, KeyTypeOK, OwnInv
<1>3. ASSUME NEW n \in Owner, WritePrivate(n) PROVE OwnInv'
  <2>1. pub[n] \notin Key /\ \A k \in Key : <<n, k>> \notin published
    BY <1>3, KeyFacts DEF WritePrivate, OwnInv
  <2> QED
    BY <1>3, <2>1 DEF WritePrivate, KeyTypeOK, OwnInv
<1>4. ASSUME NEW n \in Owner, OpenPublic(n) PROVE OwnInv'
  BY <1>4, KeyFacts DEF OpenPublic, KeyTypeOK, OwnInv
<1>5. ASSUME NEW n \in Owner, WritePublic(n) PROVE OwnInv'
  BY <1>5 DEF WritePublic, Ready, KeyTypeOK, OwnInv
<1>6. ASSUME NEW n \in Owner, EndProcess(n) PROVE OwnInv'
  BY <1>6, KeyFacts DEF EndProcess, keyFiles, KeyTypeOK, OwnInv
<1>7. ASSUME NEW n \in Owner, Publish(n) PROVE OwnInv'
  <2>1. PICK k \in Key : /\ (pc[n] = "ready" /\ k = mem[n]) \/ k = pub[n]
                         /\ published' = published \cup {<<n, k>>}
    BY <1>7 DEF Publish
  <2>2. priv[n] = k
    BY <2>1 DEF OwnInv
  <2>3. \A i \in Owner : \A l \in Key : <<i, l>> \in published' => priv[i] = l
    BY <2>1, <2>2 DEF OwnInv
  <2> QED
    BY <1>7, <2>3 DEF Publish, keyFiles, OwnInv
<1>8. ASSUME UNCHANGED <<priv, pub, pc, mem, published>> PROVE OwnInv'
  BY <1>8 DEF OwnInv
<1>9. ASSUME NEW n \in Owner, \/ EncryptBroadcast(n)
                              \/ \E m \in Owner : \/ AddPeer(n, m) \/ SaveOpens(n, m)
                                                  \/ SaveInvalid(n, m)
                                                  \/ SaveWrites(n, m) \/ Encrypt(n, m)
      PROVE  UNCHANGED <<priv, pub, pc, mem, published>>
  BY <1>9 DEF EncryptBroadcast, AddPeer, SaveOpens, SaveInvalid, SaveWrites, Encrypt,
              keyFiles
<1>10. \A n \in Owner : \A m \in Contact[n] : m \in Owner
  BY KeyStoreAssumption
<1>11. CASE UNCHANGED keyVars
  BY <1>8, <1>11 DEF keyVars
<1> QED
  BY <1>1, <1>2, <1>3, <1>4, <1>5, <1>6, <1>7, <1>8, <1>9, <1>10, <1>11
     DEF KeyNext, KeyStep

LEMMA FreshNext == KeyInv /\ [KeyNext]_keyVars => FreshInv'
<1> SUFFICES ASSUME KeyInv, [KeyNext]_keyVars PROVE FreshInv'
  OBVIOUS
<1> USE DEF KeyInv
<1>0. /\ \A n \in Owner : mem[n] \in Nat /\ (mem[n] # 0 => mem[n] \in Key)
      /\ drawn \in Nat
  BY KeyFacts DEF KeyTypeOK
<1>1. ASSUME NEW n \in Owner, Load(n) PROVE FreshInv'
  BY <1>1, KeyFacts DEF Load, keyFiles, KeyTypeOK, FreshInv
<1>2. ASSUME NEW n \in Owner, Generate(n) PROVE FreshInv'
  <2>1. /\ \A m \in Owner : /\ priv[m] # drawn + 1 \/ priv[m] \notin Key
                            /\ mem[m] # drawn + 1
        /\ drawn + 1 \in Key /\ drawn' = drawn + 1
    BY <1>0, <1>2, KeyFacts DEF Generate, FreshInv, Key
  <2>2. /\ mem' = [mem EXCEPT ![n] = drawn + 1] /\ priv' = [priv EXCEPT ![n] = Torn]
        /\ Torn \notin Key
    BY <1>2, KeyFacts DEF Generate
  <2>3. \A m \in Owner : /\ priv'[m] \in Key => m # n /\ priv'[m] = priv[m]
                         /\ mem'[m] = IF m = n THEN drawn + 1 ELSE mem[m]
    BY <2>2 DEF KeyTypeOK
  <2>4. \A m \in Owner : /\ priv'[m] \in Key => priv'[m] <= drawn'
                         /\ mem'[m] <= drawn'
    BY <1>0, <2>1, <2>3, KeyFacts DEF FreshInv
  <2>5. ASSUME NEW i \in Owner, NEW m \in Owner, i # m
        PROVE  /\ priv'[i] \in Key => priv'[i] # priv'[m] /\ priv'[i] # mem'[m]
               /\ mem'[i] # 0 => mem'[i] # mem'[m]
    BY <1>0, <2>1, <2>3, <2>5, KeyFacts DEF FreshInv
  <2> QED
    BY <2>4, <2>5 DEF FreshInv
<1>3. ASSUME NEW n \in Owner, WritePrivate(n) PROVE FreshInv'
  <2>1. mem[n] \in Key
    BY <1>0, <1>3 DEF WritePrivate, OwnInv
  <2> QED
    BY <1>0, <1>3, <2>1, KeyFacts DEF WritePrivate, KeyTypeOK, FreshInv
<1>4. ASSUME NEW n \in Owner, EndProcess(n) PROVE FreshInv'
  BY <1>0, <1>4, KeyFacts DEF EndProcess, keyFiles, KeyTypeOK, FreshInv
<1>5. ASSUME UNCHANGED <<priv, mem, drawn>> PROVE FreshInv'
  BY <1>5 DEF FreshInv
<1>6. ASSUME NEW n \in Owner, \/ OpenPublic(n) \/ WritePublic(n) \/ Publish(n)
                              \/ EncryptBroadcast(n)
                              \/ \E m \in Owner : \/ AddPeer(n, m) \/ SaveOpens(n, m)
                                                  \/ SaveInvalid(n, m)
                                                  \/ SaveWrites(n, m) \/ Encrypt(n, m)
      PROVE  UNCHANGED <<priv, mem, drawn>>
  BY <1>6 DEF OpenPublic, WritePublic, Publish, EncryptBroadcast, AddPeer, SaveOpens,
              SaveInvalid, SaveWrites, Encrypt, keyFiles
<1>7. \A n \in Owner : \A m \in Contact[n] : m \in Owner
  BY KeyStoreAssumption
<1>8. CASE UNCHANGED keyVars
  BY <1>5, <1>8 DEF keyVars
<1> QED
  BY <1>1, <1>2, <1>3, <1>4, <1>5, <1>6, <1>7, <1>8 DEF KeyNext, KeyStep

LEMMA GivenNext == KeyInv /\ [KeyNext]_keyVars => GivenInv'
<1> SUFFICES ASSUME KeyInv, [KeyNext]_keyVars PROVE GivenInv'
  OBVIOUS
<1> USE DEF KeyInv
<1>1. ASSUME NEW n \in Owner, peers' = [peers EXCEPT ![n] = LoadedPeers(n)],
             UNCHANGED <<peerFile, saving, published, frames>>
      PROVE  GivenInv'
  BY <1>1, LoadedTyped DEF KeyTypeOK, GivenInv
<1>2. ASSUME UNCHANGED <<peerFile, peers, saving, frames>>, published \subseteq published'
      PROVE  GivenInv'
  BY <1>2 DEF GivenInv
<1>3. ASSUME NEW n \in Owner, EndProcess(n) PROVE GivenInv'
  <2>1. \A m \in Owner : NoPeers[m] = 0
    BY DEF NoPeers, Absent
  <2> QED
    BY <1>3, <2>1 DEF EndProcess, keyFiles, KeyTypeOK, GivenInv
<1>4. ASSUME NEW n \in Owner, EncryptBroadcast(n) PROVE GivenInv'
  BY <1>4 DEF EncryptBroadcast, GroupFrame, keyFiles, GivenInv
<1>5. ASSUME NEW n \in Owner, NEW m \in Owner, AddPeer(n, m) PROVE GivenInv'
  <2>1. PICK k \in Key : <<m, k>> \in published /\ peers' = [peers EXCEPT ![n][m] = k]
    BY <1>5 DEF AddPeer
  <2>2. \A i, j \in Owner : peers'[i][j] = IF i = n /\ j = m THEN k ELSE peers[i][j]
    BY <2>1 DEF KeyTypeOK
  <2>3. UNCHANGED <<peerFile, saving, published, frames>>
    BY <1>5 DEF AddPeer, keyFiles
  <2>4. ASSUME NEW i \in Owner, NEW j \in Owner, peers'[i][j] # 0
        PROVE  <<j, peers'[i][j]>> \in published
    <3>1. CASE i = n /\ j = m
      BY <2>1, <2>2, <3>1
    <3>2. CASE ~(i = n /\ j = m)
      <4>1. peers'[i][j] = peers[i][j]
        BY <2>2, <3>2
      <4> QED
        BY <2>4, <4>1 DEF GivenInv
    <3> QED
      BY <3>1, <3>2
  <2> QED
    BY <2>3, <2>4 DEF GivenInv
<1>6. ASSUME NEW n \in Owner, NEW m \in Owner, SaveOpens(n, m) PROVE GivenInv'
  <2>1. PICK k \in Key : <<m, k>> \in published /\ saving' = [saving EXCEPT ![n] = <<m, k>>]
    BY <1>6 DEF SaveOpens
  <2>2. \A i, j \in Owner : peerFile'[i][j] = IF i = n /\ j = m THEN Torn ELSE peerFile[i][j]
    BY <1>6 DEF SaveOpens, KeyTypeOK
  <2>3. \A i \in Owner : saving'[i] = IF i = n THEN <<m, k>> ELSE saving[i]
    BY <2>1 DEF KeyTypeOK
  <2>4. UNCHANGED <<peers, published, frames>>
    BY <1>6 DEF SaveOpens
  <2>5. ASSUME NEW i \in Owner, NEW j \in Owner, peerFile'[i][j] \in Key
        PROVE  <<j, peerFile'[i][j]>> \in published
    <3>1. peerFile'[i][j] = peerFile[i][j]
      BY <2>2, <2>5, KeyFacts
    <3> QED
      BY <2>5, <3>1 DEF GivenInv
  <2>6. \A i \in Owner : saving'[i] # <<>> => saving'[i] \in published
    BY <2>1, <2>3 DEF GivenInv
  <2> QED
    BY <2>4, <2>5, <2>6 DEF GivenInv
<1>13. ASSUME NEW n \in Owner, NEW m \in Owner, SaveInvalid(n, m) PROVE GivenInv'
  <2>1. \A i, j \in Owner : peerFile'[i][j] = IF i = n /\ j = m THEN Torn ELSE peerFile[i][j]
    BY <1>13 DEF SaveInvalid, KeyTypeOK
  <2>2. UNCHANGED <<peers, saving, published, frames>>
    BY <1>13 DEF SaveInvalid
  <2>3. ASSUME NEW i \in Owner, NEW j \in Owner, peerFile'[i][j] \in Key
        PROVE  <<j, peerFile'[i][j]>> \in published
    <3>1. peerFile'[i][j] = peerFile[i][j]
      BY <2>1, <2>3, KeyFacts
    <3> QED
      BY <2>3, <3>1 DEF GivenInv
  <2> QED
    BY <2>2, <2>3 DEF GivenInv
<1>7. ASSUME NEW n \in Owner, NEW m \in Owner, SaveWrites(n, m) PROVE GivenInv'
  <2>1. PICK k \in Key : /\ saving[n] = <<m, k>>
                         /\ peerFile' = [peerFile EXCEPT ![n][m] = k]
                         /\ peers' = [peers EXCEPT ![n][m] = k]
    BY <1>7 DEF SaveWrites
  <2>2. <<m, k>> \in published
    BY <2>1 DEF GivenInv
  <2>3. \A i, j \in Owner :
          /\ peerFile'[i][j] = IF i = n /\ j = m THEN k ELSE peerFile[i][j]
          /\ peers'[i][j] = IF i = n /\ j = m THEN k ELSE peers[i][j]
    BY <2>1 DEF KeyTypeOK
  <2>4. \A i \in Owner : saving'[i] = IF i = n THEN <<>> ELSE saving[i]
    BY <1>7 DEF SaveWrites, KeyTypeOK
  <2>5. UNCHANGED <<published, frames>>
    BY <1>7 DEF SaveWrites
  <2> QED
    BY <2>2, <2>3, <2>4, <2>5 DEF GivenInv
<1>8. ASSUME NEW n \in Owner, NEW m \in Owner, Encrypt(n, m) PROVE GivenInv'
  <2>1. <<m, peers[n][m]>> \in published
    BY <1>8 DEF Encrypt, Absent, GivenInv
  <2>2. /\ frames' = frames \cup {[to |-> m, key |-> peers[n][m]]}
        /\ UNCHANGED <<peerFile, peers, saving, published>>
    BY <1>8 DEF Encrypt, EciesFrame, keyFiles
  <2>3. \A f \in frames' : f.to # "broadcast" => <<f.to, f.key>> \in published
    BY <2>1, <2>2 DEF GivenInv
  <2> QED
    BY <2>2, <2>3 DEF GivenInv
<1>9. \A n \in Owner : \A m \in Contact[n] : m \in Owner
  BY KeyStoreAssumption
<1>10. ASSUME NEW n \in Owner, Load(n) \/ WritePublic(n) PROVE GivenInv'
  BY <1>1, <1>10 DEF Load, WritePublic, Ready, keyFiles
<1>11. ASSUME NEW n \in Owner, Generate(n) \/ WritePrivate(n) \/ OpenPublic(n) \/ Publish(n)
       PROVE  GivenInv'
  BY <1>2, <1>11 DEF Generate, WritePrivate, OpenPublic, Publish, keyFiles
<1>12. CASE UNCHANGED keyVars
  BY <1>2, <1>12 DEF keyVars
<1> QED
  BY <1>3, <1>4, <1>5, <1>6, <1>7, <1>8, <1>9, <1>10, <1>11, <1>12, <1>13
     DEF KeyNext, KeyStep

LEMMA KeyInvariant == KeySpec => []KeyInv
<1>1. KeyInit => KeyInv
  BY KeyInitType, KeyInitInv DEF KeyInv
<1>2. KeyInv /\ [KeyNext]_keyVars => KeyInv'
  BY KeyNextType, OwnNext, FreshNext, GivenNext DEF KeyInv
<1> QED
  BY <1>1, <1>2, PTL DEF KeySpec

\* Wherever load_or_generate is cut off, however often a node restarts: a public
\* key that was given to anyone stays the key of the node that gave it.
THEOREM KeyIdentityKept == KeySpec => []IdentityKept
<1>1. KeyInv => IdentityKept
  BY DEF KeyInv, OwnInv, IdentityKept
<1> QED
  BY <1>1, KeyInvariant, PTL

\* A frame is readable for its addressee at any later time it runs, and a frame
\* for one node for no other.
THEOREM OnlyAddresseeReads == KeySpec => []ReadableByAddressee
<1>1. KeyInv => ReadableByAddressee
  <2> SUFFICES ASSUME KeyInv, NEW f \in frames, NEW n \in Owner, pc[n] = "ready"
               PROVE  Decrypts(n, f) <=>
                        f.to = n \/ (f.to = "broadcast" /\ f.key = Group[n])
    BY DEF ReadableByAddressee
  <2>1. n # "broadcast" /\ mem[n] = priv[n] /\ mem[n] # 0
    BY KeyStoreAssumption DEF KeyInv, OwnInv
  <2>2. CASE f.to = "broadcast"
    BY <2>1, <2>2 DEF Decrypts, OpensGroup, OpensEcies
  <2>3. CASE f.to # "broadcast"
    <3>1. <<f.to, f.key>> \in published /\ f.to \in Owner /\ f.key \in Key
      BY <2>3 DEF KeyInv, GivenInv, KeyTypeOK
    <3>2. priv[f.to] = f.key
      BY <3>1 DEF KeyInv, OwnInv
    <3>3. f.to # n => f.key # mem[n]
      BY <3>1, <3>2 DEF KeyInv, FreshInv
    <3> QED
      BY <2>1, <2>3, <3>2, <3>3 DEF Decrypts, OpensGroup, OpensEcies
  <2> QED
    BY <2>2, <2>3
<1> QED
  BY <1>1, KeyInvariant, PTL
=============================================================================
