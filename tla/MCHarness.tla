------------------------------ MODULE MCHarness ------------------------------
(* Two tests of two assertions; bytes of two bits, so that integers have     *)
(* sixteen; the smallest and the largest number, those around zero and those *)
(* where a digit more is needed; characters on both sides of every limit;    *)
(* elements with the highest bit clear, alone and set.                       *)
EXTENDS Harness

MCInts == {-32768, -10, -1, 0, 9, 10, 32767}
MCChars == {-128, -1, 10, 13, 31, 32, 92, 97, 110, 126, 127}
MCStrings == {<<>>, <<97>>, <<97, 110>>, <<97, 10>>, <<92, 110>>, <<10>>, <<-1>>}
(* buffers of two elements, as large as the numbers compared allow           *)
MCArrays(length) ==
  LET Patterns == {0, 2^(length * ByteBits - 1), 2^(length * ByteBits) - 1}
  IN  {<<a, b>> : a \in Patterns, b \in Patterns}
==============================================================================
