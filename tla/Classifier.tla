----------------------------- MODULE Classifier -----------------------------
(***************************************************************************)
(* The scriptPubkey classifier of src/src/script.c: the template matchers  *)
(* named scriptpubkey_is_..., wally_scriptpubkey_get_type with its fixed  *)
(* precedence, and the CSV-delay accessor.  All are pure functions of the  *)
(* script bytes; offsets are C's, read through At and Drop.                *)
(***************************************************************************)
EXTENDS ScriptCodec

\* Script type tags (WALLY_SCRIPT_TYPE_*).
TYPE_UNKNOWN == "UNKNOWN"
TYPE_OP_RETURN == "OP_RETURN"
TYPE_P2PKH == "P2PKH"
TYPE_P2SH == "P2SH"
TYPE_P2WPKH == "P2WPKH"
TYPE_P2WSH == "P2WSH"
TYPE_MULTISIG == "MULTISIG"
TYPE_CSV2OF2_1 == "CSV2OF2_1"
TYPE_CSV2OF2_1_OPT == "CSV2OF2_1_OPT"
TYPE_P2TR == "P2TR"
ScriptTypes == {TYPE_UNKNOWN, TYPE_OP_RETURN, TYPE_P2PKH, TYPE_P2SH, TYPE_P2WPKH,
                TYPE_P2WSH, TYPE_MULTISIG, TYPE_CSV2OF2_1, TYPE_CSV2OF2_1_OPT, TYPE_P2TR}

WALLY_SCRIPTPUBKEY_P2PKH_LEN == 25
WALLY_SCRIPTPUBKEY_P2SH_LEN == 23
WALLY_SCRIPTPUBKEY_P2WPKH_LEN == 22
WALLY_SCRIPTPUBKEY_P2WSH_LEN == 34
WALLY_SCRIPTPUBKEY_P2TR_LEN == 34

scriptpubkey_is_op_return(s) == Len(s) > 0 /\ At(s, 0) = OP_RETURN

scriptpubkey_is_p2pkh(s) ==
    /\ Len(s) = WALLY_SCRIPTPUBKEY_P2PKH_LEN
    /\ At(s, 0) = OP_DUP /\ At(s, 1) = OP_HASH160 /\ At(s, 2) = 20
    /\ At(s, 23) = OP_EQUALVERIFY /\ At(s, 24) = OP_CHECKSIG

scriptpubkey_is_p2sh(s) ==
    /\ Len(s) = WALLY_SCRIPTPUBKEY_P2SH_LEN
    /\ At(s, 0) = OP_HASH160 /\ At(s, 1) = 20 /\ At(s, 22) = OP_EQUAL

scriptpubkey_is_p2wpkh(s) ==
    Len(s) = WALLY_SCRIPTPUBKEY_P2WPKH_LEN /\ At(s, 0) = OP_0 /\ At(s, 1) = 20

scriptpubkey_is_p2wsh(s) ==
    Len(s) = WALLY_SCRIPTPUBKEY_P2WSH_LEN /\ At(s, 0) = OP_0 /\ At(s, 1) = 32

scriptpubkey_is_p2tr(s) ==
    Len(s) = WALLY_SCRIPTPUBKEY_P2TR_LEN /\ At(s, 0) = OP_1 /\ At(s, 1) = 32

(* The for loop of scriptpubkey_is_multisig: n key pushes remain to be     *)
(* read from s; each must decode, be 33 or 65 bytes, and leave the two     *)
(* trailing opcodes; afterwards exactly those two bytes remain.            *)
RECURSIVE MultisigPushes(_, _)
MultisigPushes(s, n) ==
    IF n = 0 THEN Len(s) = 2
    ELSE LET n_op == get_push_size(s, TRUE)
             n_push == get_push_size(s, FALSE)
         IN /\ n_op.ret = WALLY_OK
            /\ n_push.ret = WALLY_OK
            /\ is_pk_len(n_push.written)
            /\ Len(s) >= n_op.written + n_push.written + 2
            /\ MultisigPushes(Drop(s, n_op.written + n_push.written), n - 1)

scriptpubkey_is_multisig(s) ==
    LET min_1of1_len == 1 + 1 + 33 + 1 + 1
    IN /\ Len(s) >= min_1of1_len
       /\ script_is_op_n(At(s, 0), FALSE)
       /\ At(s, Len(s) - 1) = OP_CHECKMULTISIG
       /\ script_is_op_n(At(s, Len(s) - 2), FALSE)
       /\ MultisigPushes(Drop(s, 1), op_n_value(At(s, Len(s) - 2)))

NoCsv == [match |-> FALSE, blocks |-> 0]

\* The delay range both CSV matchers accept.
\* Fault variant: the upper bound of the range left out.
csv_blocks_unbounded(v) == v >= 17

csv_blocks_in_range(v) == v >= 17 /\ v <= 65535

(* scriptpubkey_is_csv_2of2_then_1: OP_DEPTH OP_1SUB OP_IF <key>          *)
(* OP_CHECKSIGVERIFY OP_ELSE <delay> OP_CHECKSEQUENCEVERIFY OP_DROP        *)
(* OP_ENDIF <key> OP_CHECKSIG, the delay a script integer in [17,65535].  *)
scriptpubkey_is_csv_2of2_then_1(s) ==
    LET min_len == 9 + 2 * (EC_PUBLIC_KEY_LEN + 1) + 2
        r == Drop(s, EC_PUBLIC_KEY_LEN + 6)
        blocks == scriptint_from_bytes(r)
        t == Drop(r, At(r, 0) + 1)
    IN IF \/ Len(s) < min_len \/ Len(s) > min_len + 2
          \/ At(s, 0) # OP_DEPTH \/ At(s, 1) # OP_1SUB
          \/ At(s, 2) # OP_IF \/ At(s, 3) # EC_PUBLIC_KEY_LEN
          \/ At(s, EC_PUBLIC_KEY_LEN + 4) # OP_CHECKSIGVERIFY
          \/ At(s, EC_PUBLIC_KEY_LEN + 5) # OP_ELSE
          \/ blocks.ret # WALLY_OK
          \/ ~csv_blocks_in_range(blocks.value)
          \/ Len(t) < 3 + (EC_PUBLIC_KEY_LEN + 1) + 1
          \/ At(t, 0) # OP_CHECKSEQUENCEVERIFY \/ At(t, 1) # OP_DROP
          \/ At(t, 2) # OP_ENDIF \/ At(t, 3) # EC_PUBLIC_KEY_LEN
          \/ At(t, EC_PUBLIC_KEY_LEN + 4) # OP_CHECKSIG
       THEN NoCsv
       ELSE [match |-> TRUE, blocks |-> blocks.value]

(* scriptpubkey_is_csv_2of2_then_1_opt: <key> OP_CHECKSIGVERIFY <key>     *)
(* OP_CHECKSIG OP_IFDUP OP_NOTIF <delay> OP_CHECKSEQUENCEVERIFY OP_ENDIF. *)
scriptpubkey_is_csv_2of2_then_1_opt(s) ==
    LET min_len == 6 + 2 * (EC_PUBLIC_KEY_LEN + 1) + 2
        r == Drop(s, EC_PUBLIC_KEY_LEN * 2 + 3)
        d == Drop(r, 3)
        blocks == scriptint_from_bytes(d)
        t == Drop(d, At(d, 0) + 1)
    IN IF \/ Len(s) < min_len \/ Len(s) > min_len + 2
          \/ At(s, 0) # EC_PUBLIC_KEY_LEN
          \/ At(s, EC_PUBLIC_KEY_LEN + 1) # OP_CHECKSIGVERIFY
          \/ At(s, EC_PUBLIC_KEY_LEN + 2) # EC_PUBLIC_KEY_LEN
          \/ At(r, 0) # OP_CHECKSIG \/ At(r, 1) # OP_IFDUP \/ At(r, 2) # OP_NOTIF
          \/ blocks.ret # WALLY_OK
          \/ ~csv_blocks_in_range(blocks.value)
          \/ Len(t) # 2 \/ At(t, 0) # OP_CHECKSEQUENCEVERIFY \/ At(t, 1) # OP_ENDIF
       THEN NoCsv
       ELSE [match |-> TRUE, blocks |-> blocks.value]

(* wally_scriptpubkey_csv_blocks_from_csv_2of2_then_1.                     *)
wally_scriptpubkey_csv_blocks_from_csv_2of2_then_1(s) ==
    LET a == scriptpubkey_is_csv_2of2_then_1(s)
        b == scriptpubkey_is_csv_2of2_then_1_opt(s)
    IN IF Len(s) = 0 THEN [ret |-> WALLY_EINVAL, value |-> 0]
       ELSE IF a.match THEN [ret |-> WALLY_OK, value |-> a.blocks]
       ELSE IF b.match THEN [ret |-> WALLY_OK, value |-> b.blocks]
       ELSE [ret |-> WALLY_EINVAL, value |-> 0]

(* wally_scriptpubkey_get_type: the first matcher in the source's order   *)
(* decides; the fixed-length templates are only tried last.               *)
wally_scriptpubkey_get_type(s) ==
    IF Len(s) = 0 THEN [ret |-> WALLY_EINVAL, type |-> TYPE_UNKNOWN]
    ELSE [ret |-> WALLY_OK,
          type |-> IF scriptpubkey_is_op_return(s) THEN TYPE_OP_RETURN
                   ELSE IF scriptpubkey_is_multisig(s) THEN TYPE_MULTISIG
                   ELSE IF scriptpubkey_is_csv_2of2_then_1(s).match THEN TYPE_CSV2OF2_1
                   ELSE IF scriptpubkey_is_csv_2of2_then_1_opt(s).match THEN TYPE_CSV2OF2_1_OPT
                   ELSE IF scriptpubkey_is_p2pkh(s) THEN TYPE_P2PKH
                   ELSE IF scriptpubkey_is_p2sh(s) THEN TYPE_P2SH
                   ELSE IF scriptpubkey_is_p2wpkh(s) THEN TYPE_P2WPKH
                   ELSE IF scriptpubkey_is_p2wsh(s) THEN TYPE_P2WSH
                   ELSE IF scriptpubkey_is_p2tr(s) THEN TYPE_P2TR
                   ELSE TYPE_UNKNOWN]

=============================================================================
