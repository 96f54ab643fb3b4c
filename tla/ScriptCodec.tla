---------------------------- MODULE ScriptCodec ----------------------------
(***************************************************************************)
(* The byte-level codecs of src/src/script.c that every builder and the    *)
(* classifier call: opcode constants, the push-opcode codec, the small     *)
(* integer opcodes and the script-integer codec.  A script is a sequence   *)
(* of bytes (integers in 0..255).  The C code indexes bytes from 0; At(s,k)*)
(* is C's bytes[k] and Drop(s,k) is C's (bytes + k, bytes_len - k), so the *)
(* offsets below read exactly as in the source.                            *)
(*                                                                         *)
(* Pointer arguments are never NULL in the modelled callers, so the        *)
(* "!bytes" / "!written" halves of the guards are left out.                *)
(***************************************************************************)
EXTENDS Integers, SequencesExt, TLC

Byte == 0..255

\* Return codes of the library (wally_core.h).
WALLY_OK == "OK"
WALLY_EINVAL == "EINVAL"
WALLY_ERROR == "ERROR"

\* Opcodes used by the templates (wally_script.h).
OP_0 == 0
OP_PUSHDATA1 == 76
OP_PUSHDATA2 == 77
OP_PUSHDATA4 == 78
OP_1 == 81
OP_16 == 96
OP_IF == 99
OP_NOTIF == 100
OP_ELSE == 103
OP_ENDIF == 104
OP_RETURN == 106
OP_IFDUP == 115
OP_DEPTH == 116
OP_DROP == 117
OP_DUP == 118
OP_EQUAL == 135
OP_EQUALVERIFY == 136
OP_1SUB == 140
OP_HASH160 == 169
OP_CHECKSIG == 172
OP_CHECKSIGVERIFY == 173
OP_CHECKMULTISIG == 174
OP_CHECKSEQUENCEVERIFY == 178

EC_PUBLIC_KEY_LEN == 33
EC_PUBLIC_KEY_UNCOMPRESSED_LEN == 65
EC_XONLY_PUBLIC_KEY_LEN == 32
HASH160_LEN == 20
SHA256_LEN == 32

\* Script flags, as sets of flag names instead of bit masks.
WALLY_SCRIPT_HASH160 == "HASH160"
WALLY_SCRIPT_SHA256 == "SHA256"
WALLY_SCRIPT_AS_PUSH == "AS_PUSH"
WALLY_SCRIPT_MULTISIG_SORTED == "SORTED"
ALL_SCRIPT_HASH_FLAGS == {WALLY_SCRIPT_HASH160, WALLY_SCRIPT_SHA256}

At(s, k) == s[k + 1]
Drop(s, k) == SubSeq(s, k + 1, Len(s))

\* A result of a call: return code, *written (or *size_out), bytes written.
Res(r, w, o) == [ret |-> r, written |-> w, out |-> o]
Fail(r) == Res(r, 0, <<>>)

\* In out, a byte of the buffer that the call leaves as it was.
UNTOUCHED == -1

(* The digests are opaque: what the code relies on is their length.       *)
DIGEST_BYTE == 90
wally_hash160(b) == [i \in 1..HASH160_LEN |-> DIGEST_BYTE]
wally_sha256(b) == [i \in 1..SHA256_LEN |-> DIGEST_BYTE + 1]

(* The EC primitives of the pegin rewrite, as opaque: a 33-byte key       *)
(* parses when it has a compressed-key prefix, and the key tweaked by     *)
(* HMAC-SHA256(key, contract) is another 33-byte compressed key.           *)
TWEAKED_BYTE == 92
pubkey_parse(k) == At(k, 0) \in {2, 3}
pegin_tweaked_key(k, contract) == <<At(k, 0)>> \o [i \in 1..32 |-> TWEAKED_BYTE]

script_flags_ok(flags, extra_flags) ==
    /\ flags \subseteq ALL_SCRIPT_HASH_FLAGS \cup extra_flags
    /\ ~(ALL_SCRIPT_HASH_FLAGS \subseteq flags)

\* script_is_op_n: is op a small-integer opcode, and its value n.
script_is_op_n(op, allow_zero) == (allow_zero /\ op = OP_0) \/ (op >= OP_1 /\ op <= OP_16)
op_n_value(op) == IF op = OP_0 THEN 0 ELSE op - OP_1 + 1

value_to_op_n(v) == IF v = 0 THEN OP_0 ELSE OP_1 + v - 1

is_pk_len(n) == n \in {EC_PUBLIC_KEY_LEN, EC_PUBLIC_KEY_UNCOMPRESSED_LEN}

calc_push_opcode_size(n) ==
    IF n < 76 THEN 1 ELSE IF n < 256 THEN 2 ELSE IF n < 65536 THEN 3 ELSE 5

script_get_push_size(n) == calc_push_opcode_size(n) + n

\* The width of the build's size_t: 64, or 32 on wasm32 and other 32-bit
\* targets.
SIZE_T_BITS == 64

(* A little-endian length field, as a size_t.  A 32-bit field of 2^30 or   *)
(* more exceeds every script modelled: in a 64-bit size_t it is           *)
(* represented by 2^30, and so is its sum with an opcode length.  In a     *)
(* 32-bit size_t a value within 256 of 2^32 is held as its two's           *)
(* complement (negative), so adding an opcode length wraps as in C; the    *)
(* others are represented by 2^30 (adding at most 5 neither wraps them nor *)
(* brings them within a script).                                           *)
LE(bs) ==
    IF Len(bs) = 4 /\ SIZE_T_BITS = 32 /\ SubSeq(bs, 2, 4) = <<255, 255, 255>> THEN bs[1] - 256
    ELSE IF Len(bs) = 4 /\ bs[4] >= 64 THEN 2^30
    ELSE LET RECURSIVE F(_) F(i) == IF i = 0 THEN 0 ELSE bs[i] * 256^(i - 1) + F(i - 1)
         IN F(Len(bs))

\* n < x for size_t values, n a length: a negative x is above 2^31.
SizeLess(n, x) == x < 0 \/ n < x

\* "bytes_len < opcode_len + *size_out": the push runs past the end.
push_exceeds(s, hdr) == SizeLess(Len(s), hdr.len + hdr.size)

(* get_push_size: decode the push opcode at the start of s (s is bytes,    *)
(* Len(s) is bytes_len) and return the opcode length or the payload size.  *)
get_push_size(s, get_opcode_size) ==
    LET b0 == At(s, 0)
        hdr == IF b0 < 76 THEN [len |-> 1, size |-> b0]
               ELSE IF b0 = OP_PUSHDATA1 THEN [len |-> 2, size |-> IF Len(s) < 2 THEN 0 ELSE At(s, 1)]
               ELSE IF b0 = OP_PUSHDATA2 THEN [len |-> 3, size |-> IF Len(s) < 3 THEN 0 ELSE LE(SubSeq(s, 2, 3))]
               ELSE IF b0 = OP_PUSHDATA4 THEN [len |-> 5, size |-> IF Len(s) < 5 THEN 0 ELSE LE(SubSeq(s, 2, 5))]
               ELSE [len |-> 0, size |-> 0]
    IN IF Len(s) = 0 \/ hdr.len = 0 \/ Len(s) < hdr.len THEN Fail(WALLY_EINVAL)
       ELSE IF push_exceeds(s, hdr) THEN Fail(WALLY_EINVAL)
       ELSE Res(WALLY_OK, IF get_opcode_size THEN hdr.len ELSE hdr.size, <<>>)

script_get_push_size_from_bytes(s) == get_push_size(s, FALSE)
script_get_push_opcode_size_from_bytes(s) == get_push_size(s, TRUE)

\* The opcode bytes wally_script_push_from_bytes emits for an n-byte push.
PushOpcode(n) ==
    IF n < 76 THEN <<n>>
    ELSE IF n < 256 THEN <<OP_PUSHDATA1, n>>
    ELSE IF n < 65536 THEN <<OP_PUSHDATA2, n % 256, n \div 256>>
    ELSE <<OP_PUSHDATA4, n % 256, (n \div 256) % 256, (n \div 65536) % 256, n \div 16777216>>

(* wally_script_push_from_bytes: push bytes (hashed first if a hash flag   *)
(* is given) into a buffer of len bytes; a short buffer only gets the      *)
(* required size.                                                          *)
wally_script_push_from_bytes(bytes, flags, len) ==
    IF ~script_flags_ok(flags, {}) \/ len = 0 THEN Fail(WALLY_EINVAL)
    ELSE LET data == IF WALLY_SCRIPT_HASH160 \in flags THEN wally_hash160(bytes)
                     ELSE IF WALLY_SCRIPT_SHA256 \in flags THEN wally_sha256(bytes)
                     ELSE bytes
             need == Len(data) + calc_push_opcode_size(Len(data))
         IN IF len < need THEN Res(WALLY_OK, need, <<>>)
            ELSE Res(WALLY_OK, need, PushOpcode(Len(data)) \o data)

(* scriptint_get_length / scriptint_to_bytes: the little-endian magnitude  *)
(* bytes the while (v) loop emits, then a sign byte when the top bit of    *)
(* the last one is taken, else the sign folded into that top bit.          *)
\* Fault variant: the loop stores v itself instead of v & 0xff.
magnitude_bytes_unmasked(v) == IF v = 0 THEN <<>> ELSE <<v>>

RECURSIVE MagnitudeBytes(_)
MagnitudeBytes(v) == IF v = 0 THEN <<>> ELSE <<v % 256>> \o MagnitudeBytes(v \div 256)

AbsInt(v) == IF v < 0 THEN -v ELSE v

\* Fault variant: the extra sign byte not counted.
scriptint_length_no_sign_byte(v) == Len(MagnitudeBytes(AbsInt(v)))

scriptint_get_length(v) ==
    LET m == MagnitudeBytes(AbsInt(v))
    IN Len(m) + (IF m # <<>> /\ Last(m) >= 128 THEN 1 ELSE 0)

scriptint_to_bytes(v) ==
    LET m == MagnitudeBytes(AbsInt(v))
    IN IF m # <<>> /\ Last(m) >= 128 THEN Append(m, IF v < 0 THEN 128 ELSE 0)
       ELSE IF v < 0 THEN [m EXCEPT ![Len(m)] = @ + 128]
       ELSE m

(* scriptint_from_bytes: s starts with the push length byte n (at most 4) *)
(* followed by n little-endian bytes; the sign is the top bit of the byte *)
(* at index n.  The magnitude is summed with that bit already cleared,     *)
(* which is what "^= (mask >> 8)" leaves and keeps 4-byte values in TLC's *)
(* integer range.                                                          *)
scriptint_from_bytes(s) ==
    IF Len(s) < 1 \/ Len(s) <= At(s, 0) \/ At(s, 0) > 4 THEN [ret |-> WALLY_EINVAL, value |-> 0]
    ELSE LET n == At(s, 0)
             digit(i) == IF i = n - 1 THEN At(s, i + 1) % 128 ELSE At(s, i + 1)
             mag == LET RECURSIVE F(_) F(i) == IF i = n THEN 0 ELSE digit(i) * 256^i + F(i + 1) IN F(0)
         IN [ret |-> WALLY_OK, value |-> IF At(s, n) >= 128 THEN -mag ELSE mag]

=============================================================================
