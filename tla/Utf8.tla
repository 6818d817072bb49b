-------------------------------- MODULE Utf8 --------------------------------
(* The validator of text payloads, utf8_validator.hpp: a table that takes   *)
(* the state of the decoder and the class of the next byte to a state. The  *)
(* code point, which decode also computes, is never read.                   *)
EXTENDS Integers, SequencesExt

Byte == 0..255

utf8_accept == 0
utf8_reject == 1

\* The class of a byte, the first part of the table.
Class(byte) ==
    CASE byte \in 0..127                -> 0
      [] byte \in 128..143              -> 1
      [] byte \in 144..159              -> 9
      [] byte \in 160..191              -> 7
      [] byte \in 194..223              -> 2
      [] byte = 224                     -> 10
      [] byte \in 225..239 \ {237}      -> 3
      [] byte = 237                     -> 4
      [] byte = 240                     -> 11
      [] byte \in 241..243              -> 6
      [] byte = 244                     -> 5
      [] OTHER                          -> 8

\* The state behind a byte that begins a code point, by its class.
FirstByte == <<0, 1, 2, 3, 5, 8, 7, 1, 1, 1, 4, 6>>

\* Within a code point: the classes the next byte may have, and the state behind it.
NextByte == [state \in 2..8 |->
    CASE state = 2 -> [classes |-> {1, 7, 9}, to |-> utf8_accept]
      [] state = 3 -> [classes |-> {1, 7, 9}, to |-> 2]
      [] state = 4 -> [classes |-> {7},       to |-> 2]
      [] state = 5 -> [classes |-> {1, 9},    to |-> 2]
      [] state = 6 -> [classes |-> {7, 9},    to |-> 3]
      [] state = 7 -> [classes |-> {1, 7, 9}, to |-> 3]
      [] state = 8 -> [classes |-> {1},       to |-> 3]]

DecodeByte(state, byte) ==
    CASE state = utf8_accept -> FirstByte[Class(byte) + 1]
      [] state = utf8_reject -> utf8_reject
      [] OTHER -> IF Class(byte) \in NextByte[state].classes THEN NextByte[state].to
                                                             ELSE utf8_reject

\* validator::decode over some more bytes, one turn of its loop for each.
Decode(state, bytes) ==
    LET Behind[n \in 0..Len(bytes)] ==
            IF n = 0 THEN state ELSE DecodeByte(Behind[n - 1], bytes[n])
    IN Behind[Len(bytes)]

----------------------------------------------------------------------------
(* What UTF-8 is, by RFC 3629: each code point in its shortest form, and no *)
(* surrogates.                                                              *)

Continues(byte) == byte \in 128..191

CodePoint(s) ==
    \/ Len(s) = 1 /\ s[1] \in 0..127
    \/ /\ Len(s) = 2 /\ s[1] \in 192..223 /\ Continues(s[2])
       /\ (s[1] - 192) * 64 + (s[2] - 128) >= 128
    \/ /\ Len(s) = 3 /\ s[1] \in 224..239 /\ Continues(s[2]) /\ Continues(s[3])
       /\ LET c == ((s[1] - 224) * 64 + (s[2] - 128)) * 64 + (s[3] - 128)
          IN c >= 2048 /\ (c < 55296 \/ c > 57343)
    \/ /\ Len(s) = 4 /\ s[1] \in 240..247
       /\ Continues(s[2]) /\ Continues(s[3]) /\ Continues(s[4])
       /\ LET c == (((s[1] - 240) * 64 + (s[2] - 128)) * 64 + (s[3] - 128)) * 64 + (s[4] - 128)
          IN c >= 65536 /\ c <= 1114111

\* How many bytes can be before a code point, or before nothing.
Cuts(bytes) == {k \in 0..Len(bytes) : k < Len(bytes) => ~Continues(bytes[k + 1])}

\* Cut before each byte that does not continue a code point, the bytes are code points.
IsUtf8(bytes) ==
    /\ 0 \in Cuts(bytes)
    /\ \A k \in Cuts(bytes) :
          \/ k = Len(bytes)
          \/ \E n \in 1..4 : k + n \in Cuts(bytes) /\ CodePoint(SubSeq(bytes, k + 1, k + n))

\* Whether something can follow that makes them one. No code point needs more.
TailBytes == {128, 144, 191}
Tails == UNION {[1..n -> TailBytes] : n \in 0..3}
BeginsUtf8(bytes) == \E tail \in Tails : IsUtf8(bytes \o tail)
=============================================================================
