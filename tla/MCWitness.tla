------------------------------ MODULE MCWitness ------------------------------
(***************************************************************************)
(* Witness for TLC.                                                        *)
(*  - Keys: the two compressed keys of MCValues, an uncompressed key (its *)
(*    p2pkh scriptSig fills WALLY_SCRIPTSIG_P2PKH_MAX_LEN exactly with the *)
(*    longest DER signature) and a 20-byte value of the wrong length.     *)
(*  - Signatures whose DER forms are 8, 70 and 72 bytes: r = s = 1, and    *)
(*    all bytes 0x11 or 0x99 (the top bit set adds a 0 byte to r and s).   *)
(*  - Multisig scripts 1-of-1, 2-of-3 (a PUSHDATA1 push), 1-of-8 (a        *)
(*    PUSHDATA2 push), and two with a first byte the builder rejects.     *)
(*  - Allocation failures at each of the first five allocations.          *)
(***************************************************************************)
EXTENDS Witness, MCValues

Uncompressed == <<4>> \o [i \in 1..64 |-> 9]
SigMid == [i \in 1..64 |-> 17]

KeyPush(k) == <<EC_PUBLIC_KEY_LEN>> \o k
K1 == Key(2, OP_CHECKMULTISIG)
K2 == Key(3, OP_ELSE)
MultisigScript(m, keys) ==
    <<value_to_op_n(m)>> \o FoldLeft(LAMBDA acc, k : acc \o KeyPush(k), <<>>, keys)
        \o <<value_to_op_n(Len(keys)), OP_CHECKMULTISIG>>

MCWPubkeys == MCPubkeys \cup {Uncompressed, MCHash20}
MCSigs == {SigLow, SigMid, SigHigh}
MCDers == {DerAndHash(sg, 1) : sg \in MCSigs} \cup {<<>>, [i \in 1..74 |-> 48]}
MCTrSigs == {[i \in 1..n |-> 7] : n \in {63, 64, 65}}
MCScripts == {MultisigScript(1, <<K1>>), MultisigScript(2, <<K1, K2, K1>>),
              MultisigScript(1, [i \in 1..8 |-> IF i % 2 = 0 THEN K1 ELSE K2]),
              MultisigScript(0, <<K1>>), MultisigScript(16, <<K2>>)}
MCSighashes == {1, 256}
MCFailPoints == 0..5
=============================================================================
