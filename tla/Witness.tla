------------------------------ MODULE Witness ------------------------------
(***************************************************************************)
(* The push-only scriptSig decomposer scriptsig_to_witness and the witness *)
(* builders of src/src/script.c, which build a scriptSig with the         *)
(* builders of ScriptSig and split it into a witness stack.               *)
(*                                                                         *)
(* The witness-stack container lives outside script.c and its allocations *)
(* may fail.  The n-th allocation a call makes fails when fail_at = n      *)
(* (0: none fails); the stack and each item added to it are one           *)
(* allocation each.                                                        *)
(***************************************************************************)
EXTENDS ScriptSig

WALLY_ENOMEM == "ENOMEM"

\* The witness output of a call that failed: *witness = NULL.
NoStack == [null |-> TRUE, items |-> <<>>]
\* A witness stack holding items.
Stack(items) == [null |-> FALSE, items |-> items]

-----------------------------------------------------------------------------
(* The while loop of scriptsig_to_witness over the bytes s still to read:  *)
(* each push adds its payload as one item (allocation Len(items) + 2,      *)
(* after the stack's own).  It stops at the first failure, with the items *)
(* added so far.                                                           *)
RECURSIVE witness_items(_, _, _)
witness_items(s, items, fail_at) ==
    IF s = <<>> THEN [ret |-> WALLY_OK, items |-> items]
    ELSE LET push_size == script_get_push_size_from_bytes(s)
             opcode_size == script_get_push_opcode_size_from_bytes(s)
         IN IF push_size.ret # WALLY_OK THEN [ret |-> push_size.ret, items |-> items]
            ELSE IF fail_at = Len(items) + 2 THEN [ret |-> WALLY_ENOMEM, items |-> items]
            ELSE witness_items(Drop(s, opcode_size.written + push_size.written),
                               Append(items, SubSeq(s, opcode_size.written + 1,
                                                    opcode_size.written + push_size.written)),
                               fail_at)

\* On failure the stack is freed and *output set to NULL.
witness_result(r) ==
    [ret |-> r.ret, witness |-> IF r.ret = WALLY_OK THEN Stack(r.items) ELSE NoStack]

scriptsig_to_witness(bytes, fail_at) ==
    IF Len(bytes) = 0 THEN [ret |-> WALLY_EINVAL, witness |-> NoStack]
    ELSE IF fail_at = 1 THEN [ret |-> WALLY_ENOMEM, witness |-> NoStack]
    ELSE witness_result(witness_items(bytes, <<>>, fail_at))

\* A witness builder's answer after building its scriptSig into buff_len bytes.
WitnessFromScriptSig(r, buff_len, fail_at) ==
    IF r.ret # WALLY_OK THEN [ret |-> r.ret, witness |-> NoStack]
    ELSE IF r.written > buff_len THEN [ret |-> WALLY_ERROR, witness |-> NoStack]
    ELSE scriptsig_to_witness(r.out, fail_at)

wally_witness_p2wpkh_from_der(pub_key, sig, fail_at) ==
    WitnessFromScriptSig(wally_scriptsig_p2pkh_from_der(pub_key, sig, WALLY_SCRIPTSIG_P2PKH_MAX_LEN),
                         WALLY_SCRIPTSIG_P2PKH_MAX_LEN, fail_at)

wally_witness_p2wpkh_from_sig(pub_key, sig, sighash, fail_at) ==
    WitnessFromScriptSig(wally_scriptsig_p2pkh_from_sig(pub_key, sig, sighash, WALLY_SCRIPTSIG_P2PKH_MAX_LEN),
                         WALLY_SCRIPTSIG_P2PKH_MAX_LEN, fail_at)

wally_witness_p2tr_from_sig(sig, fail_at) ==
    IF Len(sig) \notin {64, 65} THEN [ret |-> WALLY_EINVAL, witness |-> NoStack]
    ELSE IF fail_at \in {1, 2} THEN [ret |-> WALLY_ENOMEM, witness |-> NoStack]
    ELSE [ret |-> WALLY_OK, witness |-> Stack(<<sig>>)]

\* Fault variant: room for a DER signature without its sighash byte.
multisig_buff_len_no_hash(n_sigs, script_len) ==
    1 + (1 + EC_SIGNATURE_DER_MAX_LEN) * n_sigs + script_get_push_size(script_len)

\* The scratch buffer: OP_0, n_sigs maximal signature pushes, the script push.
multisig_buff_len(n_sigs, script_len) ==
    1 + (1 + DER_AND_HASH_MAX_LEN) * n_sigs + script_get_push_size(script_len)

(* wally_witness_multisig_from_bytes sizes its buffer by the threshold     *)
(* script[0] (allocation 1) and leaves the other checks to the scriptSig   *)
(* builder.                                                                *)
wally_witness_multisig_from_bytes(script, bytes, sighash, flags, fail_at) ==
    IF Len(script) = 0 \/ ~script_is_op_n(At(script, 0), FALSE) \/ op_n_value(At(script, 0)) > 15
    THEN [ret |-> WALLY_EINVAL, witness |-> NoStack]
    ELSE IF fail_at = 1 THEN [ret |-> WALLY_ENOMEM, witness |-> NoStack]
    ELSE LET buff_len == multisig_buff_len(op_n_value(At(script, 0)), Len(script))
         IN WitnessFromScriptSig(wally_scriptsig_multisig_from_bytes(script, bytes, sighash, flags, buff_len),
                                 buff_len, fail_at - 1)

-----------------------------------------------------------------------------
(* A caller of the witness builders.  Each call is one step; the state is  *)
(* the last call and its answer.                                           *)
CONSTANTS
    Pubkeys,        \* public keys (33 and 65 bytes, and a wrong length)
    Sigs,           \* 64-byte compact signatures
    Ders,           \* DER signatures with sighash byte, as given to _from_der
    TrSigs,         \* Schnorr signatures of several lengths
    Scripts,        \* multisig redeem scripts
    Sighashes,      \* sighash values
    MaxSigs,        \* most signatures in one multisig call
    MaxExtraSigs,   \* most signatures beyond the script's threshold
    FailPoints      \* allocation failure points (0: no failure)

ASSUME MaxSigs \in 1..15 /\ MaxExtraSigs \in Nat /\ 0 \in FailPoints

NoCall == [fn |-> "none"]

\* The threshold of a multisig script, 0 when script[0] is not OP_1..OP_16.
Threshold(script) ==
    IF Len(script) > 0 /\ script_is_op_n(At(script, 0), FALSE) THEN op_n_value(At(script, 0)) ELSE 0

SigBytes(n) == {FlattenSeq(ss) : ss \in [1..n -> Sigs]}

MultisigCalls ==
    UNION UNION {{[fn : {"multisig"}, script : {sc}, bytes : SigBytes(n),
                   sighash : {[i \in 1..n |-> h] : h \in Sighashes} \cup {<<>>},
                   flags : {{}}, fail_at : FailPoints]
                  : n \in {k \in 1..MaxSigs : k <= (IF Threshold(sc) = 0 THEN 1 ELSE Threshold(sc)) + MaxExtraSigs}}
                 : sc \in Scripts}

Calls ==
    [fn : {"p2wpkh_der"}, pub_key : Pubkeys, sig : Ders, fail_at : FailPoints]
      \cup [fn : {"p2wpkh_sig"}, pub_key : Pubkeys, sig : Sigs, sighash : Sighashes, fail_at : FailPoints]
      \cup [fn : {"p2tr"}, sig : TrSigs, fail_at : FailPoints]
      \cup MultisigCalls

Invoke(c) ==
    CASE c.fn = "p2wpkh_der" -> wally_witness_p2wpkh_from_der(c.pub_key, c.sig, c.fail_at)
      [] c.fn = "p2wpkh_sig" -> wally_witness_p2wpkh_from_sig(c.pub_key, c.sig, c.sighash, c.fail_at)
      [] c.fn = "p2tr"       -> wally_witness_p2tr_from_sig(c.sig, c.fail_at)
      [] c.fn = "multisig"   -> wally_witness_multisig_from_bytes(c.script, c.bytes, c.sighash, c.flags, c.fail_at)

VARIABLES call, ret, witness

wvars == <<call, ret, witness>>

WInit == call = NoCall /\ ret = "none" /\ witness = NoStack

Call(c) ==
    LET r == Invoke(c) IN call' = c /\ ret' = r.ret /\ witness' = r.witness

WNext == \E c \in Calls : Call(c)

WSpec == WInit /\ [][WNext]_wvars

-----------------------------------------------------------------------------
\* The arguments spec 4.4 accepts for each witness builder.
ValidArgs(c) ==
    CASE c.fn = "p2wpkh_der" -> is_pk_len(Len(c.pub_key)) /\ Len(c.sig) \in 1..DER_AND_HASH_MAX_LEN
      [] c.fn = "p2wpkh_sig" -> is_pk_len(Len(c.pub_key)) /\ Len(c.sig) = EC_SIGNATURE_LEN /\ c.sighash <= 255
      [] c.fn = "p2tr"       -> Len(c.sig) \in {64, 65}
      [] c.fn = "multisig"   ->
            LET n == Len(c.bytes) \div EC_SIGNATURE_LEN
            IN /\ Threshold(c.script) \in 1..15 /\ n \in 1..15
               /\ Len(c.bytes) = n * EC_SIGNATURE_LEN /\ Len(c.sighash) = n
               /\ \A i \in 1..n : c.sighash[i] <= 255
               /\ c.flags = {}

\* The stack spec 4.4 describes: the items the equivalent scriptSig pushes.
ExpectedStack(c) ==
    CASE c.fn = "p2wpkh_der" -> <<c.sig, c.pub_key>>
      [] c.fn = "p2wpkh_sig" -> <<DerAndHash(c.sig, c.sighash), c.pub_key>>
      [] c.fn = "p2tr"       -> <<c.sig>>
      [] c.fn = "multisig"   ->
            <<<<>>>> \o [i \in 1..Len(c.bytes) \div EC_SIGNATURE_LEN |->
                             DerAndHash(SigAt(c.bytes, i), c.sighash[i])]
                     \o <<c.script>>

(* A witness builder given valid arguments, with every allocation          *)
(* succeeding, returns OK with the stack of the scriptSig it built: the     *)
(* scratch buffer it sizes is large enough for the scriptSig, and pushing  *)
(* each element and splitting the pushes again (scriptsig_to_witness)      *)
(* gives back the elements, PUSHDATA scripts and the empty OP_0 item       *)
(* included.  Invalid arguments never succeed.                             *)
ValidCallsBuildStack ==
    call # NoCall /\ call.fail_at = 0 =>
        /\ (ret = WALLY_OK) <=> ValidArgs(call)
        /\ ret = WALLY_OK => witness = Stack(ExpectedStack(call))
=============================================================================
