------------------------------- MODULE Noise -------------------------------
(***************************************************************************)
(* The Noise NX responder of SV2 (sv2_noise/src/sv2_noise.c) as functions  *)
(* on symbolic terms: a key is what it was derived from, a ciphertext is   *)
(* the key, nonce, associated data and plaintext that made it, and it      *)
(* opens only under the same key, nonce and associated data.               *)
(***************************************************************************)
EXTENDS Integers, Sequences, SequencesExt

CONSTANTS
  MaxNonce,     \* UINT64_MAX
  ChunkSize,    \* SV2_NOISE_MAX_PAYLOAD_CHUNK_SIZE
  WireLimit     \* SV2_NOISE_MAX_FRAME_PAYLOAD_SIZE

TagSize == 1

ASSUME NoiseAssumption ==
  MaxNonce \in Nat /\ ChunkSize \in Nat \ {0} /\ WireLimit \in Nat

------------------------------------------------------------------------------
\* Ciphers

\* The two outputs of HKDF: the material mixed so far, and which output.
NoKey == [from |-> <<>>, out |-> 0]
Hkdf(ck, material, out) == [from |-> Append(ck, material), out |-> out]

Cipher(key) == [key |-> key, nonce |-> 0]
Advance(cipher) == [cipher EXCEPT !.nonce = @ + 1]

\* cipher_encrypt; the caller has seen that the nonces suffice.
Seal(cipher, ad, plain) ==
  [key |-> cipher.key, nonce |-> cipher.nonce, ad |-> ad, plain |-> plain]

\* cipher_decrypt authenticates the ciphertext.
Opens(cipher, ad, c) ==
  c.key = cipher.key /\ c.nonce = cipher.nonce /\ c.ad = ad

\* check_nonce_capacity: count nonces are left, UINT64_MAX itself is never used.
HasNonces(cipher, count) == count <= MaxNonce - cipher.nonce

ChunkCount(size) == IF size = 0 THEN 0 ELSE 1 + (size - 1) \div ChunkSize
CiphertextSize(size) == size + ChunkCount(size) * TagSize
ChunkLength(size, i) == IF i < ChunkCount(size) THEN ChunkSize
                        ELSE size - (ChunkCount(size) - 1) * ChunkSize

------------------------------------------------------------------------------
\* The handshake

MixHash(s, data) == [s EXCEPT !.hash = Append(@, data)]
MixKey(s, secret) ==
  [s EXCEPT !.chain = Append(@, secret), !.cipher = Cipher(Hkdf(s.chain, secret, 2))]

\* A ciphertext goes into the hash under the name of its plaintext.
EncryptAndHash(s, plain) ==
  [state |-> MixHash([s EXCEPT !.cipher = Advance(@)], plain),
   sealed |-> Seal(s.cipher, s.hash, plain)]

SharedSecret(one, other) == {one, other}

HandshakeStart == [chain |-> <<>>, hash |-> <<"protocol">>, cipher |-> Cipher(NoKey)]

\* The first output decrypts what the initiator sends, the second encrypts.
TransportKeys(chain) ==
  [receive |-> Hkdf(chain, {}, 1), send |-> Hkdf(chain, {}, 2)]

\* Act 2 for the ephemeral key of Act 1, and the session: -> e, ee, s, es, then
\* the certificate as payload.
Respond(initiator, ephemeral) ==
  LET hello == MixHash(MixHash(MixHash(HandshakeStart, initiator), "empty"), ephemeral)
      static == EncryptAndHash(MixKey(hello, SharedSecret(initiator, ephemeral)), "static")
      signed == EncryptAndHash(MixKey(static.state, SharedSecret(initiator, "static")),
                               "certificate")
      keys == TransportKeys(signed.state.chain)
  IN [act2 |-> [ephemeral |-> ephemeral, static |-> static.sealed,
                certificate |-> signed.sealed],
      receive |-> Cipher(keys.receive), send |-> Cipher(keys.send)]

\* The initiator, as the protocol has it: it opens both ciphertexts of Act 2 and
\* derives the same keys, or gives up.
Initiate(own, act2) ==
  LET hello == MixHash(MixHash(MixHash(HandshakeStart, own), "empty"), act2.ephemeral)
      first == MixKey(hello, SharedSecret(own, act2.ephemeral))
      second == MixKey(MixHash([first EXCEPT !.cipher = Advance(@)], act2.static.plain),
                       SharedSecret(own, act2.static.plain))
      chain == second.chain
  IN [accepts |-> /\ Opens(first.cipher, first.hash, act2.static)
                  /\ Opens(second.cipher, second.hash, act2.certificate)
                  /\ act2.certificate.plain = "certificate",
      send |-> Cipher(Hkdf(chain, {}, 1)), receive |-> Cipher(Hkdf(chain, {}, 2))]
==============================================================================
