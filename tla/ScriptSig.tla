----------------------------- MODULE ScriptSig ------------------------------
(***************************************************************************)
(* The scriptSig builders of src/src/script.c: p2pkh from a DER or a      *)
(* compact signature, and multisig from compact signatures.               *)
(*                                                                         *)
(* One collaborator lives outside script.c:                                *)
(*  - wally_ec_sig_to_der: the DER form of a 64-byte compact signature,   *)
(*    whose length depends on the leading bytes of r and s.  Every         *)
(*    signature modelled parses (r, s below the group order).             *)
(***************************************************************************)
EXTENDS ScriptCodec

\* Sizes from wally_crypto.h and wally_script.h, and the file's own macro.
EC_SIGNATURE_LEN == 64
EC_SIGNATURE_DER_MAX_LEN == 72
DER_AND_HASH_MAX_LEN == EC_SIGNATURE_DER_MAX_LEN + 1
WALLY_SCRIPTSIG_P2PKH_MAX_LEN == 140

RECURSIVE StripZeros(_)
StripZeros(x) == IF x # <<>> /\ Head(x) = 0 THEN StripZeros(Tail(x)) ELSE x

\* A 32-byte big-endian scalar as a DER INTEGER body.
DerInt(x) ==
    LET t == StripZeros(x)
    IN IF t = <<>> THEN <<0>> ELSE IF Head(t) >= 128 THEN <<0>> \o t ELSE t

wally_ec_sig_to_der(sig) ==
    LET r == DerInt(SubSeq(sig, 1, 32))
        s == DerInt(SubSeq(sig, 33, 64))
    IN <<48, 4 + Len(r) + Len(s), 2, Len(r)>> \o r \o <<2, Len(s)>> \o s

-----------------------------------------------------------------------------
(* wally_scriptsig_p2pkh_from_der: <push sig> <push pub_key>.  A buffer    *)
(* smaller than the two pushes is EINVAL.                                  *)
wally_scriptsig_p2pkh_from_der(pub_key, sig, len) ==
    IF ~is_pk_len(Len(pub_key)) \/ Len(sig) = 0 \/ Len(sig) > EC_SIGNATURE_DER_MAX_LEN + 1
    THEN Fail(WALLY_EINVAL)
    ELSE IF len < script_get_push_size(Len(pub_key)) + script_get_push_size(Len(sig))
    THEN Fail(WALLY_EINVAL)
    ELSE LET s == wally_script_push_from_bytes(sig, {}, len)
             k == wally_script_push_from_bytes(pub_key, {}, len - s.written)
         IN IF k.ret # WALLY_OK THEN Fail(k.ret)
            ELSE Res(WALLY_OK, s.written + k.written, s.out \o k.out)

\* The DER signature with the sighash byte appended.
DerAndHash(sig, sighash) == wally_ec_sig_to_der(sig) \o <<sighash % 256>>

wally_scriptsig_p2pkh_from_sig(pub_key, sig, sighash, len) ==
    IF sighash > 255 \/ Len(sig) # EC_SIGNATURE_LEN THEN Fail(WALLY_EINVAL)
    ELSE wally_scriptsig_p2pkh_from_der(pub_key, DerAndHash(sig, sighash), len)

\* The i-th 64-byte signature of the concatenated bytes.
SigAt(bytes, i) == SubSeq(bytes, (i - 1) * EC_SIGNATURE_LEN + 1, i * EC_SIGNATURE_LEN)

\* Fault variant: the final script push left out of the required size.
multisig_required_no_script(ders, script_len) ==
    FoldLeft(LAMBDA acc, d : acc + script_get_push_size(Len(d)), 1, ders)

\* The size of OP_0, the signature pushes and the script push.
multisig_required(ders, script_len) ==
    FoldLeft(LAMBDA acc, d : acc + script_get_push_size(Len(d)), 0, ders)
        + 1 + script_get_push_size(script_len)

(* wally_scriptsig_multisig_from_bytes: OP_0 <push sig+hash>... <push      *)
(* script>.  A buffer too small gets the size answer.  Otherwise OP_0 and  *)
(* the signature pushes are stored (required counts each of them, so each  *)
(* fits), then the script is pushed into what is left: a push that does   *)
(* not fit there is the "should not happen" WALLY_ERROR.                  *)
wally_scriptsig_multisig_from_bytes(script, bytes, sighash, flags, len) ==
    LET n_sigs == Len(bytes) \div EC_SIGNATURE_LEN
        ders == [i \in 1..n_sigs |-> DerAndHash(SigAt(bytes, i), sighash[i])]
        required == multisig_required(ders, Len(script))
        head == <<OP_0>> \o FlattenSeq([i \in 1..n_sigs |-> wally_script_push_from_bytes(ders[i], {}, len).out])
        tail == wally_script_push_from_bytes(script, {}, len - Len(head))
    IN IF \/ Len(script) = 0 \/ Len(bytes) = 0 \/ Len(bytes) % EC_SIGNATURE_LEN # 0
          \/ n_sigs > 15 \/ Len(sighash) # n_sigs \/ flags # {}
       THEN Fail(WALLY_EINVAL)
       ELSE IF \E i \in 1..n_sigs : sighash[i] > 255 THEN Fail(WALLY_EINVAL)
       ELSE IF len < required THEN Res(WALLY_OK, required, <<>>)
       ELSE IF tail.ret # WALLY_OK THEN Res(tail.ret, 0, head)
       ELSE IF len - Len(head) < tail.written THEN Res(WALLY_ERROR, 0, head)
       ELSE Res(WALLY_OK, required, head \o tail.out)
=============================================================================
