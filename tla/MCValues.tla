------------------------------ MODULE MCValues ------------------------------
(***************************************************************************)
(* The builder arguments the MC modules give the callers.  Two compressed  *)
(* keys whose bodies are filled with opcode bytes (OP_CHECKMULTISIG,       *)
(* OP_ELSE), so that key bytes can be mistaken for opcodes, in both sort   *)
(* orders; payloads at the edges of the push and OP_RETURN limits; delays  *)
(* at every boundary of the [17, 65535] window and of the script-integer   *)
(* encoding (128 needs a sign byte, 32768 another).                        *)
(***************************************************************************)
EXTENDS ScriptCodec

Key(prefix, fill) == <<prefix>> \o [i \in 1..32 |-> fill]

MCPubkeys == {Key(2, OP_CHECKMULTISIG), Key(3, OP_ELSE)}
MCHash20 == [i \in 1..20 |-> 17]
\* empty, one byte, a 32-byte program, the 80-byte OP_RETURN maximum and one more.
MCPayloads == {<<>>, <<7>>, [i \in 1..32 |-> 5], [i \in 1..80 |-> 6], [i \in 1..81 |-> 6]}
\* an empty (rejected) and a 20-byte mainchain script for pegout calls.
MCPegoutScripts == {<<>>, MCHash20}
MCCsvDelays == {16, 17, 127, 128, 32767, 32768, 65535, 65536}
\* compact signatures whose DER forms are 8 bytes (r = s = 1) and 72 bytes
\* (all bytes 0x99: a 0 byte is prepended to r and s).
SigLow == [i \in 1..64 |-> IF i \in {32, 64} THEN 1 ELSE 0]
SigHigh == [i \in 1..64 |-> 153]
MCScriptSigSigs == {SigLow, SigHigh}
\* no scriptSig calls.
MCNoSigs == {}
=============================================================================
