----------------------------- MODULE KeyToShard -----------------------------
(***************************************************************************)
(* Client::key_to_shard (nistore/client.cc): the shard of a key is         *)
(*     hash = hash << 1 ^ str[i]   for every byte, then hash % nshards     *)
(* over an `unsigned long` (64 bits).  str[i] is a `char`; whether char is *)
(* signed is the implementation's choice (signed on x86-64, unsigned on    *)
(* ARM/PowerPC Linux).  A signed char >= 0x80 is negative and is           *)
(* converted to unsigned long by sign extension: bits 8..63 become 1.      *)
(*                                                                         *)
(* TLC integers are 32 bits wide, so the 64-bit hash is kept as its 8     *)
(* bytes (byte j has weight 256^j) and reduced mod nshards byte by byte.   *)
(***************************************************************************)
EXTENDS Integers, SequencesExt, Bitwise

CONSTANTS
  NShards,    \* nshards
  Bytes,      \* the byte values keys are made of (0..255)
  MaxKeyLen   \* bound on the length of the keys enumerated

ASSUME NShards \in Nat \ {0} /\ Bytes \subseteq 0..255 /\ MaxKeyLen \in Nat

ByteIdx == 0..7

\* The unsigned long the char with byte value b converts to.
CharToULong(b, signedChar) ==
  [j \in ByteIdx |-> IF j = 0 THEN b
                     ELSE IF signedChar /\ b >= 128 THEN 255 ELSE 0]

\* hash << 1 on an unsigned long: the top bit is lost.
ShiftL1(h) ==
  [j \in ByteIdx |-> ((2 * h[j]) % 256) + (IF j = 0 THEN 0 ELSE h[j - 1] \div 128)]

XorULong(x, y) == [j \in ByteIdx |-> x[j] ^^ y[j]]

\* hash % nshards, Horner's rule from the top byte down.
ModULong(h, n) == FoldLeft(LAMBDA acc, j : ((256 * acc) + h[j]) % n, 0, <<7, 6, 5, 4, 3, 2, 1, 0>>)

Zero == [j \in ByteIdx |-> 0]

\* key_to_shard, for a build whose char is signed or not.
key_to_shard(key, signedChar) ==
  LET hash == FoldLeft(LAMBDA h, b : XorULong(ShiftL1(h), CharToULong(b, signedChar)),
                       Zero, key)
  IN ModULong(hash, NShards)

\* spec.md 4.6: h0 = 0, h(i+1) = (h(i) << 1) XOR b(i) over the key's bytes,
\* shard = h(n) mod nShards (exact for keys shorter than 57 bytes).
SpecShard(key) ==
  FoldLeft(LAMBDA h, b : (2 * h) ^^ b, 0, key) % NShards

Keys == UNION {[1..n -> Bytes] : n \in 1..MaxKeyLen}

VARIABLES
  key,         \* the key being routed
  signedChar   \* the build's choice for char

vars == <<key, signedChar>>

Init == key \in Keys /\ signedChar \in BOOLEAN

Next == UNCHANGED vars

Spec == Init /\ [][Next]_vars

\* Clients and servers must route a key to the same shard (spec.md 4.6:
\* deterministic, identical across clients): key_to_shard computes the
\* spec's hash of the key's bytes whatever the signedness of char.
KeyToShardMatchesSpec == key_to_shard(key, signedChar) = SpecShard(key)

=============================================================================
