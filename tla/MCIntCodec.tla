------------------------------ MODULE MCIntCodec ------------------------------
(***************************************************************************)
(* IntCodec for TLC: values on each side of every varint form boundary     *)
(* (252/253, 65535/65536, 2^32-1/2^32) and 2^64-1; buffers whose length    *)
(* takes the one- and the three-byte form; buffer sizes one short of and   *)
(* exactly each encoded length.                                            *)
(***************************************************************************)
EXTENDS IntCodec

\* The uint64_t whose low k bytes are 0xff and the rest 0.
Ones(k) == [i \in 1..8 |-> IF i <= k THEN 255 ELSE 0]
\* 2^(8k).
PowByte(k) == [i \in 1..8 |-> IF i = k + 1 THEN 1 ELSE 0]

MCVarintValues == {NatToU64(0), NatToU64(252), NatToU64(253), Ones(2), PowByte(2),
             Ones(4), PowByte(4), Ones(8)}
MCVarbuffs == {<<>>, [i \in 1..252 |-> 7], [i \in 1..253 |-> 7]}
MCVarintBufLens == {0, 1, 2, 3, 4, 5, 8, 9, 252, 253, 255, 256}
=============================================================================
