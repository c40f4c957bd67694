------------------------------ MODULE MCChunks ------------------------------
(***************************************************************************)
(* Words of 8 bits, bytes of one: the proportions of gorilla.c.            *)
(***************************************************************************)
EXTENDS Chunks

Widths == <<2, 3, 4, 5, 6>>
Numbers == 0 .. 255
At(t, v) == [timestamp |-> t, value |-> v]
MCSample == {At(1, 0), At(2, 0), At(3, 1), At(4, 129), At(5, 128), At(12, 24),
             At(40, 255), At(40, 16), At(200, 3)}
MCRanges == {<<0, 255>>, <<2, 5>>, <<3, 3>>, <<4, 100>>, <<7, 11>>, <<41, 199>>, <<5, 2>>, <<0, 2>>}
MCSizes == [k \in Kinds |-> IF k = "regular" THEN {2} ELSE {16}]
\* A short of four values and the largest chunk there may be (2^16 samples in the
\* code: CHUNK_SIZE 1048576).
ShortSizes == [k \in Kinds |-> {4}]
=============================================================================
