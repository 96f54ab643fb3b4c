------------------------------ MODULE IntCodec ------------------------------
(***************************************************************************)
(* The varint (Bitcoin CompactSize) and varbuff codecs of src/src/script.c *)
(* and their wally_varint_* / wally_varbuff_* wrappers.  A uint64_t is its *)
(* 8 little-endian bytes, U64[1] the lowest, since 64-bit values are       *)
(* beyond TLC's integers; "v <= VI_MAX_16" reads as "v fits in 2 bytes".  *)
(* The uintN_to_le_bytes helpers of internal.h copy the low N bytes.       *)
(***************************************************************************)
EXTENDS ScriptCodec

U64 == [1..8 -> Byte]

\* A length (a size_t below 2^31) as a uint64_t.
NatToU64(n) == [i \in 1..8 |-> IF i > 4 THEN 0 ELSE (n \div 256^(i - 1)) % 256]

\* v is below 2^(8k).
FitsIn(v, k) == \A i \in k + 1..8 : v[i] = 0

\* b zero-extended to 8 bytes.
ZeroExtend(b) == b \o [i \in 1..8 - Len(b) |-> 0]

VI_TAG_16 == 253
VI_TAG_32 == 254
VI_TAG_64 == 255

\* Fault variant: the one-byte form allowed up to the first tag value.
vi_max_8_is_tag == 253

VI_MAX_8 == 252

\* v <= VI_MAX_8, v <= VI_MAX_16 (USHRT_MAX), v <= VI_MAX_32 (UINT_MAX).
IsVarint8(v) == FitsIn(v, 1) /\ v[1] <= VI_MAX_8
IsVarint16(v) == FitsIn(v, 2)
IsVarint32(v) == FitsIn(v, 4)

varint_get_length(v) ==
    IF IsVarint8(v) THEN 1 ELSE IF IsVarint16(v) THEN 3 ELSE IF IsVarint32(v) THEN 5 ELSE 9

varint_to_bytes(v) ==
    IF IsVarint8(v) THEN <<v[1]>>
    ELSE IF IsVarint16(v) THEN <<VI_TAG_16>> \o SubSeq(v, 1, 2)
    ELSE IF IsVarint32(v) THEN <<VI_TAG_32>> \o SubSeq(v, 1, 4)
    ELSE <<VI_TAG_64>> \o v

varint_length_from_bytes(b) ==
    CASE At(b, 0) = VI_TAG_16 -> 3
      [] At(b, 0) = VI_TAG_32 -> 5
      [] At(b, 0) = VI_TAG_64 -> 9
      [] OTHER -> 1

\* Fault variant: a 32-bit varint read as its low 16 bits.
varint_from_bytes_short32(b) ==
    CASE At(b, 0) = VI_TAG_16 -> [v |-> ZeroExtend(SubSeq(b, 2, 3)), n |-> 3]
      [] At(b, 0) = VI_TAG_32 -> [v |-> ZeroExtend(SubSeq(b, 2, 3)), n |-> 5]
      [] At(b, 0) = VI_TAG_64 -> [v |-> SubSeq(b, 2, 9), n |-> 9]
      [] OTHER -> [v |-> ZeroExtend(<<At(b, 0)>>), n |-> 1]

\* varint_from_bytes: the value *v and the bytes read.
varint_from_bytes(b) ==
    CASE At(b, 0) = VI_TAG_16 -> [v |-> ZeroExtend(SubSeq(b, 2, 3)), n |-> 3]
      [] At(b, 0) = VI_TAG_32 -> [v |-> ZeroExtend(SubSeq(b, 2, 5)), n |-> 5]
      [] At(b, 0) = VI_TAG_64 -> [v |-> SubSeq(b, 2, 9), n |-> 9]
      [] OTHER -> [v |-> ZeroExtend(<<At(b, 0)>>), n |-> 1]

\* Fault variant: bytes_out not advanced past the varint, so the memcpy
\* overwrites it.
varbuff_to_bytes_no_advance(bytes) ==
    LET p == varint_to_bytes(NatToU64(Len(bytes)))
    IN IF Len(bytes) >= Len(p) THEN bytes \o [i \in 1..Len(p) |-> UNTOUCHED]
       ELSE bytes \o Drop(p, Len(bytes))

varbuff_to_bytes(bytes) == varint_to_bytes(NatToU64(Len(bytes))) \o bytes

wally_varint_get_length(value) == Res(WALLY_OK, varint_get_length(value), <<>>)

\* A buffer too small is EINVAL here, not a size answer.
wally_varint_to_bytes(value, len) ==
    IF len < varint_get_length(value) THEN Fail(WALLY_EINVAL)
    ELSE LET b == varint_to_bytes(value) IN Res(WALLY_OK, Len(b), b)

wally_varbuff_get_length(bytes) ==
    Res(WALLY_OK, varint_get_length(NatToU64(Len(bytes))) + Len(bytes), <<>>)

wally_varbuff_to_bytes(bytes, len) ==
    IF len < varint_get_length(NatToU64(Len(bytes))) + Len(bytes) THEN Fail(WALLY_EINVAL)
    ELSE LET b == varbuff_to_bytes(bytes) IN Res(WALLY_OK, Len(b), b)

-----------------------------------------------------------------------------
(* A caller encoding a value or a buffer into a buffer of len bytes, and   *)
(* decoding what was written.                                              *)
CONSTANTS
    Values,     \* uint64_t values, as 8 little-endian bytes
    Buffers,    \* byte strings given to wally_varbuff_to_bytes
    BufLens     \* output buffer sizes

ASSUME Values \subseteq U64 /\ Buffers \subseteq Seq(Byte) /\ BufLens \subseteq Nat

VARIABLES
    input,      \* [kind |-> "varint", value] or [kind |-> "varbuff", bytes], or none
    len,        \* the buffer size passed
    res         \* the call's Res(ret, written, bytes)

ivars == <<input, len, res>>

IInit == input = [kind |-> "none"] /\ len = 0 /\ res = Fail("none")

VarintToBytes(v, l) ==
    /\ input' = [kind |-> "varint", value |-> v]
    /\ len' = l
    /\ res' = wally_varint_to_bytes(v, l)

VarbuffToBytes(b, l) ==
    /\ input' = [kind |-> "varbuff", bytes |-> b]
    /\ len' = l
    /\ res' = wally_varbuff_to_bytes(b, l)

INext ==
    \/ \E v \in Values, l \in BufLens : VarintToBytes(v, l)
    \/ \E b \in Buffers, l \in BufLens : VarbuffToBytes(b, l)

ISpec == IInit /\ [][INext]_ivars

-----------------------------------------------------------------------------
(* Spec 8: decoding what wally_varint_to_bytes wrote gives back the value  *)
(* and its length, that length is what varint_get_length and             *)
(* varint_length_from_bytes report, and the call succeeds exactly when the *)
(* buffer holds that many bytes.  The boundaries 252/253, 65535/65536 and  *)
(* 2^32-1/2^32 are where the one-, three-, five- and nine-byte forms meet. *)
VarintRoundTrip ==
    input.kind = "varint" =>
        LET d == varint_from_bytes(res.out)
            n == varint_get_length(input.value)
        IN /\ (res.ret = WALLY_OK) <=> (len >= n)
           /\ res.ret = WALLY_OK =>
                 /\ res.written = n /\ Len(res.out) = n
                 /\ varint_length_from_bytes(res.out) = n
                 /\ d.v = input.value /\ d.n = n

(* A varbuff is its length as a varint followed by the bytes: reading the  *)
(* varint back gives the length, and the bytes follow it unchanged.        *)
VarbuffRoundTrip ==
    input.kind = "varbuff" /\ res.ret = WALLY_OK =>
        LET d == varint_from_bytes(res.out)
        IN /\ varint_length_from_bytes(res.out) <= Len(res.out)
           /\ d.v = NatToU64(Len(input.bytes))
           /\ Drop(res.out, d.n) = input.bytes
           /\ res.written = wally_varbuff_get_length(input.bytes).written
=============================================================================
