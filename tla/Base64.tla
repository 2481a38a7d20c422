------------------------------- MODULE Base64 -------------------------------
(***************************************************************************)
(* base64Encode of src/util.cpp.  The loop packs each three input bytes    *)
(* into a 24-bit temp and emits four sextets cut out with masks and        *)
(* shifts; a remainder of one or two bytes emits two or three sextets and  *)
(* pads with '='.  An output character is its index in encodeLookup (the   *)
(* table is a one-to-one renaming), or Pad.                                *)
(*                                                                         *)
(* The encoding is checked against a reference built another way: the     *)
(* input as a string of bits, cut into groups of six.                      *)
(***************************************************************************)
EXTENDS Naturals, Sequences, SequencesExt, Bitwise

CONSTANTS
  ByteSamples,  \* the byte values inputs are made of
  MaxLen,       \* bound: input length
  Pad           \* padCharacter

ASSUME /\ ByteSamples \subseteq 0 .. 255
       /\ MaxLen \in Nat
       /\ Pad \notin 0 .. 63

VARIABLES
  input,    \* inputBuffer
  cursor,   \* the iterator, as the index of the next byte
  idx,      \* the loop counter
  out,      \* encodedString
  phase     \* "loop" until the remainder has been handled, then "done"

vars == <<input, cursor, idx, out, phase>>

Chars == (0 .. 63) \cup {Pad}

TypeOK ==
  /\ input \in BoundedSeq(ByteSamples, MaxLen)
  /\ cursor \in 1 .. Len(input) + 1
  /\ idx \in 0 .. Len(input) \div 3
  /\ out \in Seq(Chars)
  /\ phase \in {"loop", "done"}

Init ==
  /\ input \in BoundedSeq(ByteSamples, MaxLen)
  /\ cursor = 1
  /\ idx = 0
  /\ out = <<>>
  /\ phase = "loop"

-----------------------------------------------------------------------------
(* encodeLookup[(temp & mask) >> shift] for the k-th sextet of temp.       *)
Masks  == <<16515072, 258048, 4032, 63>>   \* 0xFC0000 0x03F000 0x000FC0 0x3F
Shifts == <<18, 12, 6, 0>>

(* Bug variant of Sextet: the first sextet shifted by 17 instead of 18.   *)
SextetShift17(temp, k) ==
  shiftR(temp & Masks[k], IF k = 1 THEN 17 ELSE Shifts[k])

Sextet(temp, k) == shiftR(temp & Masks[k], Shifts[k])

(* temp built from the n bytes at the cursor, big-endian, zero-filled.     *)
Temp(n) ==
  LET b(j) == IF j <= n THEN input[cursor + j - 1] ELSE 0
  IN b(1) * 65536 + b(2) * 256 + b(3)

(* One iteration of the for loop over the complete three-byte groups.     *)
encode_group ==
  /\ phase = "loop"
  /\ idx < Len(input) \div 3
  /\ out' = out \o [k \in 1 .. 4 |-> Sextet(Temp(3), k)]
  /\ cursor' = cursor + 3
  /\ idx' = idx + 1
  /\ UNCHANGED <<input, phase>>

(* Bug variant of encode_tail: one '=' for one remaining byte, two for two. *)
encode_tail_pads_swapped ==
  LET r == Len(input) % 3
  IN /\ phase = "loop"
     /\ idx = Len(input) \div 3
     /\ out' = out \o [k \in 1 .. r + (IF r = 0 THEN 0 ELSE 1) |-> Sextet(Temp(r), k)]
                   \o [k \in 1 .. r |-> Pad]
     /\ cursor' = cursor + r
     /\ phase' = "done"
     /\ UNCHANGED <<input, idx>>

(* The switch on inputBuffer.size() % 3: for r remaining bytes, r + 1      *)
(* sextets of temp and 3 - r pad characters; nothing when r = 0.           *)
encode_tail ==
  LET r == Len(input) % 3
  IN /\ phase = "loop"
     /\ idx = Len(input) \div 3
     /\ out' = out \o [k \in 1 .. r + (IF r = 0 THEN 0 ELSE 1) |-> Sextet(Temp(r), k)]
                   \o [k \in 1 .. (IF r = 0 THEN 0 ELSE 3 - r) |-> Pad]
     /\ cursor' = cursor + r
     /\ phase' = "done"
     /\ UNCHANGED <<input, idx>>

Next == encode_group \/ encode_tail

Spec == Init /\ [][Next]_vars

-----------------------------------------------------------------------------
(* Reference (RFC 4648): the bits of the input, most significant first,   *)
(* cut into groups of six, the last filled with zeros; then '=' until the *)
(* length is a multiple of four.                                           *)
Bits(s) == FlattenSeq([i \in 1 .. Len(s) |->
                         [j \in 1 .. 8 |-> (s[i] \div 2^(8 - j)) % 2]])

RefEncode(s) ==
  LET bits   == Bits(s)
      groups == (Len(bits) + 5) \div 6
      bit(i) == IF i <= Len(bits) THEN bits[i] ELSE 0
      val(g) == LET RECURSIVE Acc(_)
                    Acc(j) == IF j = 0 THEN 0
                              ELSE Acc(j - 1) * 2 + bit((g - 1) * 6 + j)
                IN Acc(6)
      chars  == [g \in 1 .. groups |-> val(g)]
  IN chars \o [k \in 1 .. ((4 - (groups % 4)) % 4) |-> Pad]

(* base64Encode returns the standard encoding of every input: the masks,  *)
(* shifts, the remainder switch and its padding together agree with the   *)
(* bit-level definition.                                                   *)
EncodesReference == phase = "done" => out = RefEncode(input)
=============================================================================
