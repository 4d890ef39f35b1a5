----------------------------- MODULE Integrity ------------------------------
(***************************************************************************)
(* HMAC-SHA256 over the immutable header bytes, src/src/shm_security.cpp:  *)
(* the block buffer of sha256_update and sha256_final, the two pads, the   *)
(* key.  Bytes are values; the compression function and the exclusive or   *)
(* with a pad are free constructors, that is, assumed to collide never.    *)
(***************************************************************************)
EXTENDS Integers, SequencesExt

CONSTANTS
    Block,      \* kSha256BlockBytes
    LenBytes,   \* bytes of the length at the end of the last block
    HmacBytes   \* SHMFX_HMAC_BYTES, of a key and of a digest

ASSUME IntegrityAssumption ==
    Block \in Nat /\ LenBytes \in 1 .. Block - 1 /\ HmacBytes \in 1 .. Block

\* The two bytes of the padding; all bytes are tuples, so that TLC compares them.
Zero == <<"00">>
Mark == <<"80">>

\* h: what has been compressed so far, block by block.
sha256_init == [h |-> <<>>, block |-> [i \in 1 .. Block |-> Zero], used |-> 0, total |-> 0]

sha256_transform(h, block) == Append(h, block)

\* One byte goes into the block; a full block is compressed and not cleared.
Put(s, b) ==
    LET block == [s.block EXCEPT ![s.used + 1] = b]
        full == s.used + 1 = Block
    IN  [h |-> IF full THEN sha256_transform(s.h, block) ELSE s.h, block |-> block,
         used |-> IF full THEN 0 ELSE s.used + 1, total |-> s.total + 1]

sha256_update(s, data) == FoldLeft(Put, s, data)

\* Mutant: the bytes left in the block from before are hashed again.
sha256_final_dirty(s) ==
    LET marked == [s.block EXCEPT ![s.used + 1] = Mark]
        h == sha256_transform(s.h, [i \in 1 .. Block |->
                 IF i > Block - LenBytes THEN <<"len", s.total, i>> ELSE marked[i]])
    IN  [i \in 1 .. HmacBytes |-> <<"digest", i, h>>]

\* The mark, zeros and the length, in one block or in two.
sha256_final(s) ==
    LET used == s.used + 1
        marked == [i \in 1 .. Block |-> IF i < used THEN s.block[i] ELSE IF i = used THEN Mark ELSE Zero]
        spills == used > Block - LenBytes
        rest == IF spills THEN [i \in 1 .. Block |-> Zero] ELSE marked
        last == [i \in 1 .. Block |-> IF i > Block - LenBytes THEN <<"len", s.total, i>> ELSE rest[i]]
        h == sha256_transform(IF spills THEN sha256_transform(s.h, marked) ELSE s.h, last)
    IN  [i \in 1 .. HmacBytes |-> <<"digest", i, h>>]

sha256(data) == sha256_final(sha256_update(sha256_init, data))

\* ipad or opad: the key, filled up with zeros, each byte combined with the pad.
KeyPad(key, pad) == [i \in 1 .. Block |-> <<pad, IF i <= Len(key) THEN key[i] ELSE Zero>>]

hmac_sha256(key, data) ==
    LET inner == sha256_final(sha256_update(sha256_update(sha256_init, KeyPad(key, "ipad")), data))
    IN  sha256_final(sha256_update(sha256_update(sha256_init, KeyPad(key, "opad")), inner))

NoHmac == <<>>

\* The environment comes first: when it is set and malformed the key file is
\* not looked at.  NoKey: not set, or no file.  BadKey: not 64 hex digits.
NoKey == "none"
BadKey == "malformed"

parse_hex_key(text) == IF text \in {NoKey, BadKey} THEN NoKey ELSE text

load_hmac_key(env, file) == parse_hex_key(IF env # NoKey THEN env ELSE file)

KeyBytes(key) == [i \in 1 .. HmacBytes |-> <<key, i>>]

-----------------------------------------------------------------------------
(* The standard's definitions (FIPS 180-4, RFC 2104), to compare with *)

Zeros(n) == [i \in 1 .. n |-> Zero]

Padded(m) ==
    LET n == Len(m) + 1 + LenBytes
    IN  m \o <<Mark>> \o Zeros((Block - (n % Block)) % Block)
          \o [i \in 1 .. LenBytes |-> <<"len", Len(m), Block - LenBytes + i>>]

Blocks(m) == [k \in 1 .. Len(m) \div Block |-> SubSeq(m, (k - 1) * Block + 1, k * Block)]

Sha(m) == [i \in 1 .. HmacBytes |-> <<"digest", i, Blocks(Padded(m))>>]

Hmac(key, m) ==
    LET Pad(p) == [i \in 1 .. Block |-> <<p, IF i <= Len(key) THEN key[i] ELSE Zero>>]
    IN  Sha(Pad("opad") \o Sha(Pad("ipad") \o m))
=============================================================================
