--------------------------- MODULE PeginAbstract ---------------------------
(***************************************************************************)
(* What wally_elements_pegin_contract_script_from_bytes promises (spec    *)
(* 4.7), as one atomic step: the redeem script, read as a sequence of     *)
(* pushes and opcodes, comes back with every 33-byte key push before the  *)
(* first OP_ELSE opcode replaced by a push of the tweaked key, and every  *)
(* other byte copied to its offset.  A push whose payload runs past the   *)
(* end of the script is a single token that takes the rest of it.  A key  *)
(* before OP_ELSE that does not parse is an internal error; an output     *)
(* buffer not of the redeem script's size is EINVAL.                      *)
(***************************************************************************)
EXTENDS ScriptCodec

CONSTANTS RedeemScripts, Contracts

VARIABLES
    redeem,     \* the redeem script
    contract,   \* the contract script the keys are tweaked with
    len,        \* size of the output buffer
    result,     \* the output buffer
    status      \* "busy" until the call returns, then its return code

avars == <<redeem, contract, len, result, status>>

\* The output buffer before the call: nothing written.
Blank(r) == [i \in 1..Len(r) |-> UNTOUCHED]

\* The length of the token at the start of s.
TokenLen(s) ==
    LET sz == get_push_size(s, FALSE)
        op == get_push_size(s, TRUE)
    IN IF At(s, 0) > OP_PUSHDATA4 THEN 1
       ELSE IF sz.ret = WALLY_OK THEN op.written + sz.written
       ELSE Len(s)

IsKeyPush(tok) == Len(tok) = EC_PUBLIC_KEY_LEN + 1 /\ tok[1] = EC_PUBLIC_KEY_LEN

\* The keys the call tweaks: those of the key pushes before the first OP_ELSE.
RECURSIVE KeysBeforeElse(_)
KeysBeforeElse(s) ==
    IF s = <<>> THEN {}
    ELSE LET tok == SubSeq(s, 1, TokenLen(s))
         IN IF tok = <<OP_ELSE>> THEN {}
            ELSE (IF IsKeyPush(tok) THEN {Tail(tok)} ELSE {}) \cup KeysBeforeElse(Drop(s, Len(tok)))

RECURSIVE Rewritten(_, _, _)
Rewritten(s, c, else_seen) ==
    IF s = <<>> THEN <<>>
    ELSE LET tok == SubSeq(s, 1, TokenLen(s))
         IN (IF IsKeyPush(tok) /\ ~else_seen
             THEN <<EC_PUBLIC_KEY_LEN>> \o pegin_tweaked_key(Tail(tok), c) ELSE tok)
            \o Rewritten(Drop(s, Len(tok)), c, else_seen \/ tok = <<OP_ELSE>>)

Init ==
    /\ redeem \in RedeemScripts
    /\ contract \in Contracts
    /\ len \in {Len(redeem), Len(redeem) + 1}
    /\ result = Blank(redeem)
    /\ status = "busy"

ArgsOk == Len(redeem) > 0 /\ Len(contract) > 0 /\ len = Len(redeem)

ReturnEinval ==
    /\ status = "busy" /\ ~ArgsOk
    /\ status' = WALLY_EINVAL
    /\ UNCHANGED <<redeem, contract, len, result>>

ReturnRewritten ==
    /\ status = "busy" /\ ArgsOk
    /\ \A k \in KeysBeforeElse(redeem) : pubkey_parse(k)
    /\ result' = Rewritten(redeem, contract, FALSE)
    /\ status' = WALLY_OK
    /\ UNCHANGED <<redeem, contract, len>>

(* What the buffer holds after an error is left open: result is only the *)
(* buffer a successful call returns.                                      *)
ReturnError ==
    /\ status = "busy" /\ ArgsOk
    /\ \E k \in KeysBeforeElse(redeem) : ~pubkey_parse(k)
    /\ status' = WALLY_ERROR
    /\ UNCHANGED <<redeem, contract, len, result>>

Next == ReturnEinval \/ ReturnRewritten \/ ReturnError

SafeSpec == Init /\ [][Next]_avars

\* A call returns.
Spec == SafeSpec /\ WF_avars(Next)

=============================================================================
