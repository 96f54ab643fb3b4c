------------------------------- MODULE MCPegin -------------------------------
(***************************************************************************)
(* Pegin for TLC.  Redeem scripts of up to three tokens: key pushes of the *)
(* two keys of MCValues and of a key that does not parse, OP_ELSE,         *)
(* OP_CHECKMULTISIG, OP_0, a one-byte push whose payload is the OP_ELSE   *)
(* byte, and a key given through OP_PUSHDATA1.  The malformed scripts put  *)
(* a key push and an OP_ELSE byte inside a push whose payload runs past   *)
(* the end of the script.                                                  *)
(***************************************************************************)
EXTENDS Pegin, MCValues

BadKey == Key(5, 7)
KeyPush(k) == <<EC_PUBLIC_KEY_LEN>> \o k
Tokens == {KeyPush(k) : k \in MCPubkeys \cup {BadKey}}
          \cup {<<OP_ELSE>>, <<OP_CHECKMULTISIG>>, <<OP_0>>, <<1, OP_ELSE>>,
                <<OP_PUSHDATA1>> \o KeyPush(Key(2, OP_CHECKMULTISIG))}

MCRedeemScripts == {<<>>} \cup {a : a \in Tokens} \cup {a \o b : a, b \in Tokens}
                   \cup {a \o b \o c : a, b, c \in Tokens}
MCContracts == {<<>>, <<OP_1>>}

\* A push of 40 bytes with 34 or 35 after it: a key push and OP_ELSE inside.
MCMalformedScripts ==
    MCRedeemScripts \cup {<<40>> \o KeyPush(k) : k \in MCPubkeys}
                    \cup {<<40, OP_ELSE>> \o KeyPush(k) : k \in MCPubkeys}

\* A 32-bit size_t, as on wasm32.
MCSizeT32 == 32
(* PUSHDATA4 headers announcing 2^32-6, 2^32-5 and 2^32-4 bytes, alone and *)
(* before a key push: in a 32-bit size_t opcode_len + length is -1, 0 and  *)
(* 1 (mod 2^32).                                                           *)
MCWrapScripts ==
    {<<OP_PUSHDATA4, b, 255, 255, 255>> \o t :
        b \in {250, 251, 252}, t \in {<<>>} \cup {KeyPush(k) : k \in MCPubkeys}}
=============================================================================
