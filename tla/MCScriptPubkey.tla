--------------------------- MODULE MCScriptPubkey ---------------------------
(***************************************************************************)
(* ScriptPubkey for TLC: the arguments of MCValues, buffers that are       *)
(* empty, too small and large enough, and alterations by OP_0, OP_3 and    *)
(* OP_CHECKSIG (a template opcode, a small integer and a key-push length). *)
(***************************************************************************)
EXTENDS ScriptPubkey, MCValues

MCBufLens == {0, 24, 200}
MCEditBytes == {OP_0, OP_1 + 2, OP_CHECKSIG}
=============================================================================
