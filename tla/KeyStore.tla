------------------------------ MODULE KeyStore ------------------------------
(***************************************************************************)
(* Node keys of phy/crypto.py across crashes and restarts: key files that  *)
(* load_or_generate reads or writes, the peers' keys, and which node can   *)
(* read a frame.  A key pair is a number, private and public half alike;   *)
(* the ciphers open with the right key and with no other.                  *)
(***************************************************************************)
EXTENDS Naturals, FiniteSets

CONSTANTS
    Owner,      \* nodes
    Contact,    \* whose public keys each node is given
    Group,      \* the group key each node derives from its passphrase
    KeyLimit,   \* bound: key pairs drawn
    FrameLimit  \* bound: frames looked at in one behaviour

ASSUME KeyStoreAssumption ==
    /\ "broadcast" \notin Owner
    /\ Contact \in [Owner -> SUBSET Owner]
    /\ Group \in [Owner -> Nat]
    /\ KeyLimit \in Nat /\ FrameLimit \in Nat

Key == 1..KeyLimit
Absent == 0             \* no file; no key in memory
Torn == KeyLimit + 1    \* the file is there, but holds no key
File == 0..Torn

VARIABLES
    priv,       \* node.private
    pub,        \* node.public
    peerFile,   \* peers/<id>.pub
    pc,         \* where load_or_generate is; "ready" once it has returned
    mem,        \* _private
    peers,      \* _peers
    saving,     \* the peer and key save_peer is writing, or none
    drawn,      \* key pairs drawn
    published,  \* public keys others have been given, with the owner's id
    frames      \* frames encrypted

keyFiles == <<priv, pub, peerFile>>
keyVars == <<priv, pub, peerFile, pc, mem, peers, saving, drawn, published, frames>>

NoPeers == [m \in Owner |-> Absent]

KeyInit ==
    /\ priv = NoPeers /\ pub = NoPeers
    /\ peerFile = [n \in Owner |-> NoPeers]
    /\ pc = [n \in Owner |-> "off"]
    /\ mem = NoPeers
    /\ peers = [n \in Owner |-> NoPeers]
    /\ saving = [n \in Owner |-> <<>>]
    /\ drawn = 0 /\ published = {} /\ frames = {}

-----------------------------------------------------------------------------
(* load_or_generate                                                        *)

\* Fault: a file cut short passes for a key.
LoadedUnchecked(n) == peerFile[n]

\* A peer file that holds no key is passed over.
LoadedPeers(n) ==
    [m \in Owner |-> IF peerFile[n][m] \in Key THEN peerFile[n][m] ELSE Absent]

Ready(n) ==
    /\ pc' = [pc EXCEPT ![n] = "ready"]
    /\ peers' = [peers EXCEPT ![n] = LoadedPeers(n)]

\* Fault: whatever the file holds is taken for the key.
LoadUnchecked(n) ==
    /\ pc[n] = "off" /\ priv[n] # Absent
    /\ mem' = [mem EXCEPT ![n] = priv[n]]
    /\ Ready(n)
    /\ UNCHANGED <<keyFiles, saving, drawn, published, frames>>

\* A private key cut short raises, on this start and every later one.
Load(n) ==
    /\ pc[n] = "off" /\ priv[n] \in Key
    /\ mem' = [mem EXCEPT ![n] = priv[n]]
    /\ Ready(n)
    /\ UNCHANGED <<keyFiles, saving, drawn, published, frames>>

\* Fault: the public file is written before the private one.
GeneratePublicFirst(n) ==
    /\ pc[n] = "off" /\ priv[n] = Absent /\ drawn < KeyLimit
    /\ drawn' = drawn + 1
    /\ mem' = [mem EXCEPT ![n] = drawn + 1]
    /\ pub' = [pub EXCEPT ![n] = drawn + 1]
    /\ pc' = [pc EXCEPT ![n] = "private"]
    /\ UNCHANGED <<priv, peerFile, peers, saving, published, frames>>

\* write_bytes opens the file, which empties it, and then writes.
Generate(n) ==
    /\ pc[n] = "off" /\ priv[n] = Absent /\ drawn < KeyLimit
    /\ drawn' = drawn + 1
    /\ mem' = [mem EXCEPT ![n] = drawn + 1]
    /\ priv' = [priv EXCEPT ![n] = Torn]
    /\ pc' = [pc EXCEPT ![n] = "private"]
    /\ UNCHANGED <<pub, peerFile, peers, saving, published, frames>>

WritePrivate(n) ==
    /\ pc[n] = "private"
    /\ priv' = [priv EXCEPT ![n] = mem[n]]
    /\ pc' = [pc EXCEPT ![n] = "open"]
    /\ UNCHANGED <<pub, peerFile, mem, peers, saving, drawn, published, frames>>

OpenPublic(n) ==
    /\ pc[n] = "open"
    /\ pub' = [pub EXCEPT ![n] = Torn]
    /\ pc' = [pc EXCEPT ![n] = "public"]
    /\ UNCHANGED <<priv, peerFile, mem, peers, saving, drawn, published, frames>>

WritePublic(n) ==
    /\ pc[n] = "public"
    /\ pub' = [pub EXCEPT ![n] = mem[n]]
    /\ Ready(n)
    /\ UNCHANGED <<priv, peerFile, mem, saving, drawn, published, frames>>

\* The process ends, at any point; the files stay as they are.
EndProcess(n) ==
    /\ pc[n] # "off"
    /\ pc' = [pc EXCEPT ![n] = "off"]
    /\ mem' = [mem EXCEPT ![n] = Absent]
    /\ peers' = [peers EXCEPT ![n] = NoPeers]
    /\ saving' = [saving EXCEPT ![n] = <<>>]
    /\ UNCHANGED <<keyFiles, drawn, published, frames>>

-----------------------------------------------------------------------------
(* Peers                                                                   *)

\* public_key_hex of a running node, or the file of any.
Publish(n) ==
    /\ \E k \in Key : /\ (pc[n] = "ready" /\ k = mem[n]) \/ k = pub[n]
                      /\ published' = published \cup {<<n, k>>}
    /\ UNCHANGED <<keyFiles, pc, mem, peers, saving, drawn, frames>>

\* add_peer, add_peer_hex: in memory only.
AddPeer(n, m) ==
    /\ pc[n] = "ready"
    /\ \E k \in Key : /\ <<m, k>> \in published
                      /\ peers' = [peers EXCEPT ![n][m] = k]
    /\ UNCHANGED <<keyFiles, pc, mem, saving, drawn, published, frames>>

\* save_peer
SaveOpens(n, m) ==
    /\ pc[n] = "ready" /\ saving[n] = <<>>
    /\ \E k \in Key : /\ <<m, k>> \in published
                      /\ saving' = [saving EXCEPT ![n] = <<m, k>>]
    /\ peerFile' = [peerFile EXCEPT ![n][m] = Torn]
    /\ UNCHANGED <<priv, pub, pc, mem, peers, drawn, published, frames>>

\* Bytes that are no key are on disk before add_peer refuses them.
SaveInvalid(n, m) ==
    /\ pc[n] = "ready" /\ saving[n] = <<>>
    /\ peerFile' = [peerFile EXCEPT ![n][m] = Torn]
    /\ UNCHANGED <<priv, pub, pc, mem, peers, saving, drawn, published, frames>>

SaveWrites(n, m) ==
    /\ \E k \in Key : /\ saving[n] = <<m, k>>
                      /\ peerFile' = [peerFile EXCEPT ![n][m] = k]
                      /\ peers' = [peers EXCEPT ![n][m] = k]
    /\ saving' = [saving EXCEPT ![n] = <<>>]
    /\ UNCHANGED <<priv, pub, pc, mem, drawn, published, frames>>

-----------------------------------------------------------------------------
(* Frames                                                                  *)

\* _encrypt_group
GroupFrame(n) == [to |-> "broadcast", key |-> Group[n]]

\* _encrypt_ecies: a shared secret of a fresh key and the recipient's.
EciesFrame(m, k) == [to |-> m, key |-> k]

EncryptBroadcast(n) ==
    /\ pc[n] = "ready" /\ Cardinality(frames) < FrameLimit
    /\ frames' = frames \cup {GroupFrame(n)}
    /\ UNCHANGED <<keyFiles, pc, mem, peers, saving, drawn, published>>

\* KeyError for a peer that is not known.
Encrypt(n, m) ==
    /\ pc[n] = "ready" /\ peers[n][m] # Absent /\ Cardinality(frames) < FrameLimit
    /\ frames' = frames \cup {EciesFrame(m, peers[n][m])}
    /\ UNCHANGED <<keyFiles, pc, mem, peers, saving, drawn, published>>

\* _decrypt_group, _decrypt_ecies: whether authentication succeeds.
OpensGroup(n, f) == f.key = Group[n]
OpensEcies(n, f) == f.key = mem[n]

\* decrypt, by the prefix, returns the plaintext and not None.
Decrypts(n, f) == IF f.to = "broadcast" THEN OpensGroup(n, f) ELSE OpensEcies(n, f)

KeyStep(n) ==
    \/ Load(n) \/ Generate(n) \/ WritePrivate(n) \/ OpenPublic(n) \/ WritePublic(n)
    \/ EndProcess(n) \/ Publish(n) \/ EncryptBroadcast(n)
    \/ \E m \in Contact[n] : \/ AddPeer(n, m) \/ SaveOpens(n, m) \/ SaveInvalid(n, m)
                             \/ SaveWrites(n, m) \/ Encrypt(n, m)

KeyNext == \E n \in Owner : KeyStep(n)

KeySpec == KeyInit /\ [][KeyNext]_keyVars

-----------------------------------------------------------------------------
(* Properties                                                              *)

KeyTypeOK ==
    /\ priv \in [Owner -> File] /\ pub \in [Owner -> File]
    /\ peerFile \in [Owner -> [Owner -> File]]
    /\ pc \in [Owner -> {"off", "private", "open", "public", "ready"}]
    /\ mem \in [Owner -> 0..KeyLimit]
    /\ peers \in [Owner -> [Owner -> 0..KeyLimit]]
    /\ saving \in [Owner -> {<<>>} \cup (Owner \X Key)]
    /\ drawn \in 0..KeyLimit
    /\ published \subseteq Owner \X Key
    /\ frames \subseteq [to : Owner \cup {"broadcast"}, key : Nat]

\* A public key that anyone was given stays the node's: a crash or a restart
\* at any point of load_or_generate never leaves it with another private key.
IdentityKept == \A n \in Owner : \A k \in Key :
    <<n, k>> \in published =>
        /\ priv[n] = k
        /\ pc[n] = "ready" => mem[n] = k

\* A frame is readable for the node it is addressed to and for no other, also
\* when sender or addressee restarted and whatever became of the peer files.
ReadableByAddressee == \A f \in frames : \A n \in Owner : pc[n] = "ready" =>
    (Decrypts(n, f) <=> f.to = n \/ (f.to = "broadcast" /\ f.key = Group[n]))
=============================================================================
