------------------------------ MODULE Builders ------------------------------
(***************************************************************************)
(* The scriptPubkey builders of src/src/script.c.  Each is an operator of  *)
(* its inputs and the caller's buffer size len, returning Res(ret,         *)
(* written, out) where out is every byte the call stores into the buffer,  *)
(* starting at its first byte -- also on the paths that only report the   *)
(* size needed, so a partial write stays visible.                          *)
(***************************************************************************)
EXTENDS Classifier

(* wally_ec_public_key_bip341_tweak (external): a 33-byte key comes back   *)
(* as another 33-byte key; the content is opaque to the builder.          *)
TWEAK_BYTE == 91
wally_ec_public_key_bip341_tweak(k) == <<At(k, 0)>> \o [i \in 1..32 |-> TWEAK_BYTE]

\* The size-only answer: OK, the size the caller needs, nothing written.
NeedSize(n) == Res(WALLY_OK, n, <<>>)

wally_scriptpubkey_p2pkh_from_bytes(bytes, flags, len) ==
    IF Len(bytes) = 0 \/ ~script_flags_ok(flags, {}) \/ WALLY_SCRIPT_SHA256 \in flags \/ len = 0
    THEN Fail(WALLY_EINVAL)
    ELSE IF len < WALLY_SCRIPTPUBKEY_P2PKH_LEN THEN NeedSize(WALLY_SCRIPTPUBKEY_P2PKH_LEN)
    ELSE IF IF WALLY_SCRIPT_HASH160 \in flags THEN ~is_pk_len(Len(bytes)) ELSE Len(bytes) # HASH160_LEN
    THEN Fail(WALLY_EINVAL)
    ELSE LET p == wally_script_push_from_bytes(bytes, flags, len - 4)
         IN IF p.ret = WALLY_OK
            THEN Res(WALLY_OK, WALLY_SCRIPTPUBKEY_P2PKH_LEN,
                     <<OP_DUP, OP_HASH160>> \o p.out \o <<OP_EQUALVERIFY, OP_CHECKSIG>>)
            ELSE Res(p.ret, p.written, <<OP_DUP, OP_HASH160>>)

wally_scriptpubkey_p2sh_from_bytes(bytes, flags, len) ==
    IF Len(bytes) = 0 \/ ~(flags \subseteq {WALLY_SCRIPT_HASH160}) \/ len = 0
    THEN Fail(WALLY_EINVAL)
    ELSE IF WALLY_SCRIPT_HASH160 \notin flags /\ Len(bytes) # HASH160_LEN THEN Fail(WALLY_EINVAL)
    ELSE IF len < WALLY_SCRIPTPUBKEY_P2SH_LEN THEN NeedSize(WALLY_SCRIPTPUBKEY_P2SH_LEN)
    ELSE LET p == wally_script_push_from_bytes(bytes, flags, len - 2)
         IN IF p.ret = WALLY_OK
            THEN Res(WALLY_OK, WALLY_SCRIPTPUBKEY_P2SH_LEN, <<OP_HASH160>> \o p.out \o <<OP_EQUAL>>)
            ELSE Res(p.ret, p.written, <<OP_HASH160>>)

WALLY_MAX_OP_RETURN_LEN == 80

(* The OP_RETURN byte is stored whenever the push call succeeds, also when *)
(* it only reported the size.                                              *)
wally_scriptpubkey_op_return_from_bytes(bytes, flags, len) ==
    IF Len(bytes) > WALLY_MAX_OP_RETURN_LEN \/ flags # {} \/ len = 0 THEN Fail(WALLY_EINVAL)
    ELSE LET p == wally_script_push_from_bytes(bytes, flags, len - 1)
         IN IF p.ret = WALLY_OK THEN Res(WALLY_OK, p.written + 1, <<OP_RETURN>> \o p.out)
            ELSE p

\* memcmp(a, b, EC_PUBLIC_KEY_LEN) < 0, the order qsort sorts keys into.
pubkey_compare_less(a, b) ==
    \E i \in 1..EC_PUBLIC_KEY_LEN : a[i] < b[i] /\ \A j \in 1..(i - 1) : a[j] = b[j]

wally_scriptpubkey_multisig_from_bytes(bytes, threshold, flags, len) ==
    LET n_pubkeys == Len(bytes) \div EC_PUBLIC_KEY_LEN
        script_len == 3 + n_pubkeys * (EC_PUBLIC_KEY_LEN + 1)
        given == [i \in 1..n_pubkeys |->
                    SubSeq(bytes, (i - 1) * EC_PUBLIC_KEY_LEN + 1, i * EC_PUBLIC_KEY_LEN)]
        pubkeys == IF WALLY_SCRIPT_MULTISIG_SORTED \in flags
                   THEN SortSeq(given, pubkey_compare_less) ELSE given
    IN IF \/ Len(bytes) = 0 \/ Len(bytes) % EC_PUBLIC_KEY_LEN # 0
          \/ n_pubkeys < 1 \/ n_pubkeys > 15 \/ threshold < 1 \/ threshold > 15
          \/ threshold > n_pubkeys \/ ~(flags \subseteq {WALLY_SCRIPT_MULTISIG_SORTED})
          \/ len = 0
       THEN Fail(WALLY_EINVAL)
       ELSE IF len < script_len THEN NeedSize(script_len)
       ELSE Res(WALLY_OK, script_len,
                <<value_to_op_n(threshold)>>
                \o FoldLeft(LAMBDA acc, k : acc \o <<EC_PUBLIC_KEY_LEN>> \o k, <<>>, pubkeys)
                \o <<value_to_op_n(n_pubkeys), OP_CHECKMULTISIG>>)

(* The CSV guards of both template builders; the length is computed before *)
(* the arguments are checked.                                              *)
CsvArgsBad(bytes, csv_blocks, flags) ==
    Len(bytes) # 2 * EC_PUBLIC_KEY_LEN \/ csv_blocks < 17 \/ csv_blocks > 65535 \/ flags # {}

MainKey(bytes) == SubSeq(bytes, 1, EC_PUBLIC_KEY_LEN)
RecoveryKey(bytes) == SubSeq(bytes, EC_PUBLIC_KEY_LEN + 1, 2 * EC_PUBLIC_KEY_LEN)

\* The script sizes of the two CSV templates: two key pushes, the fixed
\* opcodes, the push byte of the delay and the delay itself.
\* Fault variant: the push byte of the delay not counted.
csv_script_len_no_push(csv_blocks) ==
    2 * (EC_PUBLIC_KEY_LEN + 1) + 9 + scriptint_get_length(csv_blocks)

csv_script_len(csv_blocks) ==
    2 * (EC_PUBLIC_KEY_LEN + 1) + 9 + 1 + scriptint_get_length(csv_blocks)

\* Fault variant: one fixed opcode too many counted.
csv_opt_script_len_extra(csv_blocks) ==
    2 * (EC_PUBLIC_KEY_LEN + 1) + 7 + 1 + scriptint_get_length(csv_blocks)

csv_opt_script_len(csv_blocks) ==
    2 * (EC_PUBLIC_KEY_LEN + 1) + 6 + 1 + scriptint_get_length(csv_blocks)

wally_scriptpubkey_csv_2of2_then_1_from_bytes(bytes, csv_blocks, flags, len) ==
    LET csv_len == scriptint_get_length(csv_blocks)
        script_len == csv_script_len(csv_blocks)
    IN IF CsvArgsBad(bytes, csv_blocks, flags) THEN Fail(WALLY_EINVAL)
       ELSE IF len < script_len THEN NeedSize(script_len)
       ELSE Res(WALLY_OK, script_len,
                <<OP_DEPTH, OP_1SUB, OP_IF, EC_PUBLIC_KEY_LEN>> \o MainKey(bytes)
                \o <<OP_CHECKSIGVERIFY, OP_ELSE, csv_len % 256>> \o scriptint_to_bytes(csv_blocks)
                \o <<OP_CHECKSEQUENCEVERIFY, OP_DROP, OP_ENDIF, EC_PUBLIC_KEY_LEN>>
                \o RecoveryKey(bytes) \o <<OP_CHECKSIG>>)

wally_scriptpubkey_csv_2of2_then_1_from_bytes_opt(bytes, csv_blocks, flags, len) ==
    LET csv_len == scriptint_get_length(csv_blocks)
        script_len == csv_opt_script_len(csv_blocks)
    IN IF CsvArgsBad(bytes, csv_blocks, flags) THEN Fail(WALLY_EINVAL)
       ELSE IF len < script_len THEN NeedSize(script_len)
       ELSE Res(WALLY_OK, script_len,
                <<EC_PUBLIC_KEY_LEN>> \o RecoveryKey(bytes) \o <<OP_CHECKSIGVERIFY, EC_PUBLIC_KEY_LEN>>
                \o MainKey(bytes) \o <<OP_CHECKSIG, OP_IFDUP, OP_NOTIF, csv_len % 256>>
                \o scriptint_to_bytes(csv_blocks) \o <<OP_CHECKSEQUENCEVERIFY, OP_ENDIF>>)

WALLY_WITNESSSCRIPT_MAX_LEN == 42

(* wally_witness_program_from_bytes_and_version.  The version opcode is    *)
(* stored before the push is attempted, and with AS_PUSH the length byte   *)
(* is stored whenever the push call succeeds.                              *)
wally_witness_program_from_bytes_and_version(bytes, version, flags, len) ==
    LET v1plus_max_size == WALLY_WITNESSSCRIPT_MAX_LEN - 2
        as_push == WALLY_SCRIPT_AS_PUSH \in flags
        room == IF as_push THEN len - 1 ELSE len
        p == wally_script_push_from_bytes(bytes, flags \ {WALLY_SCRIPT_AS_PUSH}, room - 1)
        body == <<value_to_op_n(version)>> \o p.out
    IN IF version > 16 \/ ~script_flags_ok(flags, {WALLY_SCRIPT_AS_PUSH}) \/ len = 0
       THEN Fail(WALLY_EINVAL)
       ELSE IF IF flags \cap ALL_SCRIPT_HASH_FLAGS # {} THEN Len(bytes) = 0
               ELSE \/ version = 0 /\ Len(bytes) \notin {HASH160_LEN, SHA256_LEN}
                    \/ Len(bytes) < 2 \/ Len(bytes) > v1plus_max_size
       THEN Fail(WALLY_EINVAL)
       ELSE IF as_push /\ len < 2 THEN Fail(WALLY_EINVAL)
       ELSE IF p.ret # WALLY_OK
       THEN Res(p.ret, p.written, IF as_push THEN <<UNTOUCHED>> \o body ELSE body)
       ELSE IF as_push THEN Res(WALLY_OK, p.written + 2, <<(p.written + 1) % 256>> \o body)
       ELSE Res(WALLY_OK, p.written + 1, body)

\* wally_witness_program_from_bytes: version 0.
wally_witness_program_from_bytes(bytes, flags, len) ==
    wally_witness_program_from_bytes_and_version(bytes, 0, flags, len)

(* wally_scriptpubkey_p2tr_from_bytes, non-Elements build: no flags.  The *)
(* size answer comes before the key length is checked.                    *)
wally_scriptpubkey_p2tr_from_bytes(bytes, flags, len) ==
    LET xonly == IF Len(bytes) = EC_PUBLIC_KEY_LEN
                 THEN Drop(wally_ec_public_key_bip341_tweak(bytes), 1) ELSE bytes
    IN IF flags # {} THEN Fail(WALLY_EINVAL)
       ELSE IF len < WALLY_SCRIPTPUBKEY_P2TR_LEN THEN NeedSize(WALLY_SCRIPTPUBKEY_P2TR_LEN)
       ELSE IF Len(xonly) # EC_XONLY_PUBLIC_KEY_LEN THEN Fail(WALLY_EINVAL)
       ELSE Res(WALLY_OK, WALLY_SCRIPTPUBKEY_P2TR_LEN, <<OP_1, Len(xonly)>> \o xonly)

\* Fault variant: the OP_RETURN byte left out of the total.
pegout_script_size_no_op_return(genesis_len, mainchain_len, sub_len, proof_len) ==
    script_get_push_size(genesis_len) + script_get_push_size(mainchain_len)
      + script_get_push_size(sub_len) + script_get_push_size(proof_len)

(* wally_elements_pegout_script_size.                                      *)
wally_elements_pegout_script_size(genesis_len, mainchain_len, sub_len, proof_len) ==
    1 + script_get_push_size(genesis_len) + script_get_push_size(mainchain_len)
      + script_get_push_size(sub_len) + script_get_push_size(proof_len)

(* The pegout_script_push macro, applied to the elements still to push.    *)
(* len is the room left before the previous element was stored, bw that   *)
(* element's size (bytes_written) and r the call's result so far.  A      *)
(* buffer that ends before the previous element returns OK with *written  *)
(* the total of the elements attempted; a failed push returns its error   *)
(* with *written as accumulated.                                           *)
RECURSIVE pegout_script_push(_, _, _, _)
pegout_script_push(elems, len, bw, r) ==
    IF elems = <<>> \/ len < bw THEN r
    ELSE LET p == wally_script_push_from_bytes(Head(elems), {}, len - bw)
         IN IF p.ret # WALLY_OK THEN Res(p.ret, r.written, r.out)
            ELSE pegout_script_push(Tail(elems), len - bw, p.written,
                                    Res(WALLY_OK, r.written + p.written, r.out \o p.out))

wally_elements_pegout_script_from_bytes(genesis_blockhash, mainchain_script, sub_pubkey, whitelistproof, flags, len) ==
    IF \/ Len(genesis_blockhash) # SHA256_LEN \/ Len(mainchain_script) = 0
       \/ Len(sub_pubkey) # EC_PUBLIC_KEY_LEN \/ Len(whitelistproof) = 0
       \/ flags # {} \/ len = 0
    THEN Fail(WALLY_EINVAL)
    ELSE pegout_script_push(<<genesis_blockhash, mainchain_script, sub_pubkey, whitelistproof>>,
                            len, 1, Res(WALLY_OK, 1, <<OP_RETURN>>))

=============================================================================
