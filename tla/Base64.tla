------------------------------- MODULE Base64 -------------------------------
(***************************************************************************)
(* base64_encode of src/proxy/http.rs, which encodes the credentials of a  *)
(* Proxy-Authorization header: one step per chunk of three bytes.  An      *)
(* output character is its place in B64_ALPHABET.                          *)
(*                                                                         *)
(* Bounds: inputs of up to MaxLen bytes over Sample.                       *)
(***************************************************************************)
EXTENDS Naturals, Sequences, SequencesExt, FiniteSetsExt

CONSTANTS MaxLen, Sample

VARIABLES input, rest, out

vars == <<input, rest, out>>

PAD == 64

Init == input \in SeqOf(Sample, MaxLen) /\ rest = input /\ out = <<>>

Combined(b0, b1, b2) == b0 * 2 ^ 16 + b1 * 2 ^ 8 + b2

Sextet(combined, shift) == (combined \div 2 ^ shift) % 64

\* A bug that pads only to an even length.
Padded_Short(chunk, chars) ==
  chars \o (IF Len(chunk) > 2 \/ Len(chars) % 2 = 0 THEN <<>> ELSE <<PAD>>)

Padded(chunk, chars) == chars \o [i \in 1 .. 3 - Len(chunk) |-> PAD]

EncodeChunk ==
  /\ rest # <<>>
  /\ LET chunk == SubSeq(rest, 1, Min({3, Len(rest)}))
         byte(i) == IF Len(chunk) > i THEN chunk[i + 1] ELSE 0
         combined == Combined(byte(0), byte(1), byte(2))
         chars == [i \in 1 .. Len(chunk) + 1 |-> Sextet(combined, 24 - 6 * i)]
     IN  out' = out \o Padded(chunk, chars)
  /\ rest' = SubSeq(rest, 4, Len(rest)) /\ UNCHANGED input

Next == EncodeChunk

Spec == Init /\ [][Next]_vars

-----------------------------------------------------------------------------
(* Properties.                                                             *)

\* Bit n of the input, counted from its first byte's most significant bit, and
\* of the output, six to a character; beyond the end the bits are zero.
InputBit(n) ==
  IF n \div 8 < Len(input) THEN (input[(n \div 8) + 1] \div 2 ^ (7 - (n % 8))) % 2 ELSE 0
OutputBit(n) == (out[(n \div 6) + 1] \div 2 ^ (5 - (n % 6))) % 2

\* The output is whole quartets, two characters of padding for one byte left
\* over and one for two.
WholeQuartets ==
  rest = <<>> =>
    /\ Len(out) % 4 = 0
    /\ Cardinality({i \in 1 .. Len(out) : out[i] = PAD}) = (3 - (Len(input) % 3)) % 3

\* The characters carry the bits of the input in their order.
BitsPreserved ==
  \A n \in 0 .. 6 * Len(out) - 1 :
    out[(n \div 6) + 1] # PAD => OutputBit(n) = InputBit(n)
=============================================================================
