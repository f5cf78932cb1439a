------------------------- MODULE MC_StreamCompare -------------------------
(* Streams of up to three entries over three ids, two of them sharing the  *)
(* millisecond part so that the sequence part of the order is exercised.   *)
EXTENDS StreamCompare

CONSTANTS d1, d2

MC_Ids == {<<1, 0>>, <<1, 1>>, <<2, 0>>}
MC_Data == {d1, d2}
MC_MaxLen == 3
=============================================================================
