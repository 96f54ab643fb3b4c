---------------------------- MODULE BuilderCalls ----------------------------
(***************************************************************************)
(* The builder calls a caller of the library makes, with every argument   *)
(* list of interest, valid and invalid, and their dispatch to the         *)
(* scriptPubkey and scriptSig builders of src/src/script.c.               *)
(***************************************************************************)
EXTENDS Builders, ScriptSig

CONSTANTS
    Pubkeys,        \* 33-byte compressed public keys
    Hash20,         \* a 20-byte hash (HASH160 of a key or script)
    Payloads,       \* byte strings given to OP_RETURN, P2SH-with-hash, witness programs
    CsvDelays,      \* csv_blocks values, inside and outside [17, 65535]
    PegoutScripts,  \* mainchain scripts of pegout calls (empty: no pegout calls)
    Sigs,           \* compact signatures of scriptSig calls (empty: no scriptSig calls)
    BufLens         \* sizes of the caller's output buffer

ASSUME /\ Pubkeys \subseteq Seq(Byte) /\ \A k \in Pubkeys : Len(k) = EC_PUBLIC_KEY_LEN
       /\ Len(Hash20) = HASH160_LEN
       /\ BufLens \subseteq Nat
       /\ PegoutScripts \subseteq Seq(Byte)
       /\ \A sg \in Sigs : Len(sg) = EC_SIGNATURE_LEN

NoCall == [fn |-> "none"]

(* The builder calls the caller makes; every argument list of interest,   *)
(* valid and invalid.                                                      *)
KeyLists == {<<a>> : a \in Pubkeys} \cup {<<a, b>> : a, b \in Pubkeys} \cup
            {<<a, b, c>> : a, b, c \in Pubkeys}
Flat(ks) == FoldLeft(LAMBDA acc, k : acc \o k, <<>>, ks)

\* The redeem scripts of scriptSig calls, as the multisig builder emits
\* them into a buffer large enough: 1-of-1 (37 bytes, a direct push) and
\* 2-of-3 (105 bytes, a PUSHDATA1 push).
MultisigOut(keys, m) == wally_scriptpubkey_multisig_from_bytes(keys, m, {}, Len(keys) + 3 * 2).out
RedeemScripts ==
    {MultisigOut(k, 1) : k \in Pubkeys} \cup {MultisigOut(a \o b \o a, 2) : a, b \in Pubkeys}

\* One or two compact signatures, concatenated.
SigLists == Sigs \cup {a \o b : a, b \in Sigs}

Calls ==
       [fn : {"p2pkh"}, bytes : {Hash20} \cup Pubkeys, flags : {{}, {WALLY_SCRIPT_HASH160}}]
  \cup [fn : {"p2sh"}, bytes : {Hash20} \cup Payloads, flags : {{}, {WALLY_SCRIPT_HASH160}}]
  \cup [fn : {"op_return"}, bytes : Payloads, flags : {{}}]
  \cup [fn : {"multisig"}, bytes : {Flat(ks) : ks \in KeyLists}, threshold : 0..3,
        flags : {{}, {WALLY_SCRIPT_MULTISIG_SORTED}}]
  \cup [fn : {"csv", "csv_opt"}, bytes : {a \o b : a, b \in Pubkeys}, blocks : CsvDelays, flags : {{}}]
  \cup [fn : {"witness"}, bytes : {Hash20} \cup Payloads, version : {0, 1, 2},
        flags : {{}, {WALLY_SCRIPT_SHA256}, {WALLY_SCRIPT_AS_PUSH}}]
  \cup [fn : {"p2tr"}, bytes : Pubkeys \cup {Drop(k, 1) : k \in Pubkeys} \cup {Hash20}, flags : {{}}]
  \cup [fn : {"pegout"}, genesis : {p \in Payloads : Len(p) = SHA256_LEN} \cup {Hash20},
        mainchain : PegoutScripts, sub : Pubkeys, proof : Payloads, flags : {{}}]
  \cup [fn : {"scriptsig_p2pkh"}, pub_key : Pubkeys, sig : Sigs, sighash : {1, 256}]
  \cup UNION {[fn : {"scriptsig_multisig"}, script : RedeemScripts, bytes : {ss},
              sighash : {[i \in 1..Len(ss) \div EC_SIGNATURE_LEN |-> 1]}, flags : {{}}]
              : ss \in SigLists}

Invoke(c, len) ==
    CASE c.fn = "p2pkh"     -> wally_scriptpubkey_p2pkh_from_bytes(c.bytes, c.flags, len)
      [] c.fn = "p2sh"      -> wally_scriptpubkey_p2sh_from_bytes(c.bytes, c.flags, len)
      [] c.fn = "op_return" -> wally_scriptpubkey_op_return_from_bytes(c.bytes, c.flags, len)
      [] c.fn = "multisig"  -> wally_scriptpubkey_multisig_from_bytes(c.bytes, c.threshold, c.flags, len)
      [] c.fn = "csv"       -> wally_scriptpubkey_csv_2of2_then_1_from_bytes(c.bytes, c.blocks, c.flags, len)
      [] c.fn = "csv_opt"   -> wally_scriptpubkey_csv_2of2_then_1_from_bytes_opt(c.bytes, c.blocks, c.flags, len)
      [] c.fn = "witness" /\ c.version = 0 -> wally_witness_program_from_bytes(c.bytes, c.flags, len)
      [] c.fn = "witness" /\ c.version # 0 ->
                               wally_witness_program_from_bytes_and_version(c.bytes, c.version, c.flags, len)
      [] c.fn = "p2tr"      -> wally_scriptpubkey_p2tr_from_bytes(c.bytes, c.flags, len)
      [] c.fn = "pegout"    -> wally_elements_pegout_script_from_bytes(
                                   c.genesis, c.mainchain, c.sub, c.proof, c.flags, len)
      [] c.fn = "scriptsig_p2pkh"    -> wally_scriptsig_p2pkh_from_sig(c.pub_key, c.sig, c.sighash, len)
      [] c.fn = "scriptsig_multisig" -> wally_scriptsig_multisig_from_bytes(c.script, c.bytes, c.sighash, c.flags, len)

=============================================================================
