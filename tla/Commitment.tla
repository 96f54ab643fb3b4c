----------------------------- MODULE Commitment -----------------------------
(***************************************************************************)
(* The Elements confidential-commitment accessors of src/src/script.c.  A  *)
(* commitment field of a transaction is asset, value or nonce; its first  *)
(* byte says how long it is.  Two accessors read that byte:               *)
(*  - get_commitment_len (confidential_*_length_from_bytes): the field's  *)
(*    length, 0 for a serialization that is invalid for this field;       *)
(*  - confidential_commitment_varint_from_bytes                           *)
(*    (confidential_*_varint_from_bytes): the length as a varint-style tag *)
(*    *v and the count it returns.                                         *)
(* The prefix values are those of wally_transaction.h.                     *)
(***************************************************************************)
EXTENDS ScriptCodec

WALLY_TX_ASSET_CT_EXPLICIT_PREFIX == 1
WALLY_TX_ASSET_CT_NONCE_PREFIX_A == 2
WALLY_TX_ASSET_CT_NONCE_PREFIX_B == 3
WALLY_TX_ASSET_CT_VALUE_PREFIX_A == 8
WALLY_TX_ASSET_CT_VALUE_PREFIX_B == 9
WALLY_TX_ASSET_CT_ASSET_PREFIX_A == 10
WALLY_TX_ASSET_CT_ASSET_PREFIX_B == 11
WALLY_TX_ASSET_CT_VALUE_UNBLIND_LEN == 9
WALLY_TX_ASSET_CT_LEN == 33

Fields == {"asset", "value", "nonce"}

\* The blinded-commitment prefixes of each field.
FieldPrefixes(field) ==
    CASE field = "asset" -> <<WALLY_TX_ASSET_CT_ASSET_PREFIX_A, WALLY_TX_ASSET_CT_ASSET_PREFIX_B>>
      [] field = "value" -> <<WALLY_TX_ASSET_CT_VALUE_PREFIX_A, WALLY_TX_ASSET_CT_VALUE_PREFIX_B>>
      [] field = "nonce" -> <<WALLY_TX_ASSET_CT_NONCE_PREFIX_A, WALLY_TX_ASSET_CT_NONCE_PREFIX_B>>

\* The first byte of a commitment (the "!bytes" NULL case is never passed).
get_commitment_len(b0, prefixA, prefixB) ==
    IF b0 = 0 THEN 1
    ELSE IF b0 = WALLY_TX_ASSET_CT_EXPLICIT_PREFIX
         THEN IF prefixA = WALLY_TX_ASSET_CT_VALUE_PREFIX_A
              THEN WALLY_TX_ASSET_CT_VALUE_UNBLIND_LEN ELSE WALLY_TX_ASSET_CT_LEN
    ELSE IF b0 \in {prefixA, prefixB} THEN WALLY_TX_ASSET_CT_LEN
    ELSE 0

\* The six blinded prefixes the varint accessor accepts for any field.
AllPrefixes == {WALLY_TX_ASSET_CT_VALUE_PREFIX_A, WALLY_TX_ASSET_CT_VALUE_PREFIX_B,
                WALLY_TX_ASSET_CT_ASSET_PREFIX_A, WALLY_TX_ASSET_CT_ASSET_PREFIX_B,
                WALLY_TX_ASSET_CT_NONCE_PREFIX_A, WALLY_TX_ASSET_CT_NONCE_PREFIX_B}

\* *v and the value returned.
confidential_commitment_varint_from_bytes(b0, ct_value) ==
    IF b0 = WALLY_TX_ASSET_CT_EXPLICIT_PREFIX
    THEN LET v == IF ct_value THEN WALLY_TX_ASSET_CT_VALUE_UNBLIND_LEN ELSE WALLY_TX_ASSET_CT_LEN
         IN [v |-> v, n |-> v]
    ELSE IF b0 \in AllPrefixes THEN [v |-> WALLY_TX_ASSET_CT_LEN, n |-> WALLY_TX_ASSET_CT_LEN]
    ELSE [v |-> 0, n |-> 1]

\* confidential_asset/value/nonce_length_from_bytes.
confidential_length_from_bytes(field, b0) ==
    get_commitment_len(b0, FieldPrefixes(field)[1], FieldPrefixes(field)[2])

\* Fault variant: the value accessor reading an explicit value as 33 bytes.
confidential_varint_value_flag_dropped(field, b0) ==
    confidential_commitment_varint_from_bytes(b0, FALSE)

\* confidential_asset/value/nonce_varint_from_bytes.
confidential_varint_from_bytes(field, b0) ==
    confidential_commitment_varint_from_bytes(b0, field = "value")

\* Fault variant: the null value's zero byte never stored.
value_to_bytes_no_null_byte(bytes) ==
    IF bytes = <<>> THEN Res(WALLY_OK, 1, <<UNTOUCHED>>) ELSE Res(WALLY_OK, Len(bytes), bytes)

\* confidential_value_to_bytes: an empty value is written as the null
\* commitment, one zero byte.
confidential_value_to_bytes(bytes) ==
    IF bytes = <<>> THEN Res(WALLY_OK, 1, <<0>>) ELSE Res(WALLY_OK, Len(bytes), bytes)

-----------------------------------------------------------------------------
(* A parser reading one commitment field: it asks both accessors about    *)
(* the field's first byte.                                                 *)
CONSTANTS
    FirstBytes,     \* the first bytes a field may start with
    ValueFields     \* serialized values given to confidential_value_to_bytes

VARIABLES
    field,      \* the field being read, or "none"
    byte,       \* its first byte
    length,     \* confidential_<field>_length_from_bytes
    varint,     \* confidential_<field>_varint_from_bytes: [v, n]
    written     \* bytes confidential_value_to_bytes wrote before the read, or 0

cvars == <<field, byte, length, varint, written>>

CInit == field = "none" /\ byte = 0 /\ length = 0 /\ varint = [v |-> 0, n |-> 0] /\ written = 0

Read(f, b0) ==
    /\ field' = f
    /\ byte' = b0
    /\ length' = confidential_length_from_bytes(f, b0)
    /\ varint' = confidential_varint_from_bytes(f, b0)

ReadField(f, b0) == Read(f, b0) /\ written' = 0

\* A value serialized with confidential_value_to_bytes and read back.
WriteValue(bytes) ==
    LET w == confidential_value_to_bytes(bytes) IN Read("value", At(w.out, 0)) /\ written' = w.written

CNext ==
    \/ \E f \in Fields, b0 \in FirstBytes : ReadField(f, b0)
    \/ \E v \in ValueFields : WriteValue(v)

CSpec == CInit /\ [][CNext]_cvars

-----------------------------------------------------------------------------
(* Where the length accessor accepts a blinded or explicit commitment     *)
(* (length 9 or 33), the varint accessor gives the same length as its tag  *)
(* (spec 4.6: "returns the same length reinterpreted as a tag"): an        *)
(* explicit value is 9 bytes through both, an explicit asset or nonce 33. *)
SameLengthWhenValid ==
    field # "none" /\ length > 1 => varint = [v |-> length, n |-> length]

(* A value written by confidential_value_to_bytes, the empty (null) value *)
(* included, is read back by confidential_value_length_from_bytes as       *)
(* exactly as many bytes as were written.                                  *)
ValueWriteReadsBack == written > 0 => length = written

=============================================================================
