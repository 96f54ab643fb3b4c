------------------------------- MODULE Pegin -------------------------------
(***************************************************************************)
(* wally_elements_pegin_contract_script_from_bytes, one step per turn of   *)
(* its for (;;) loop.  p is the offset of the redeem-script pointer p (the *)
(* output pointer q stays at the same offset), out the caller's buffer.   *)
(* The EC and HMAC calls that follow a successful key parse fail only on  *)
(* a faulty EC backend and are left out; a key that does not parse is the *)
(* input-driven WALLY_ERROR.                                               *)
(***************************************************************************)
EXTENDS ScriptCodec

CONSTANTS RedeemScripts, Contracts

VARIABLES
    redeem, contract, len,  \* the call's arguments
    out,                    \* the output buffer
    p,                      \* bytes of redeem consumed (p - redeem_script)
    op_else_found,          \* an OP_ELSE opcode has been passed
    pc,                     \* "entry", "loop" or "done"
    ret                     \* the return code once done

vars == <<redeem, contract, len, out, p, op_else_found, pc, ret>>

Blank(r) == [i \in 1..Len(r) |-> UNTOUCHED]

\* Fault variant: the output pointer one byte ahead of the input pointer.
store_one_past(buf, pos, bytes) ==
    [i \in DOMAIN buf \cup 1..(pos + 1 + Len(bytes)) |->
        IF i > pos + 1 /\ i <= pos + 1 + Len(bytes) THEN bytes[i - pos - 1]
        ELSE IF i \in DOMAIN buf THEN buf[i] ELSE UNTOUCHED]

\* out with bytes stored from offset pos.
Store(buf, pos, bytes) ==
    [i \in DOMAIN buf |-> IF i > pos /\ i <= pos + Len(bytes) THEN bytes[i - pos] ELSE buf[i]]

PeginTypeOK ==
    /\ out \in Seq(Byte \cup {UNTOUCHED}) /\ Len(out) = Len(redeem)
    /\ p \in 0..Len(redeem)
    /\ op_else_found \in BOOLEAN
    /\ pc \in {"entry", "loop", "done"}
    /\ ret \in {"none", WALLY_OK, WALLY_EINVAL, WALLY_ERROR}

Init ==
    /\ redeem \in RedeemScripts
    /\ contract \in Contracts
    /\ len \in {Len(redeem), Len(redeem) + 1}
    /\ out = Blank(redeem)
    /\ p = 0
    /\ op_else_found = FALSE
    /\ pc = "entry"
    /\ ret = "none"

Return(code) == pc' = "done" /\ ret' = code

\* The argument checks before the loop.
Enter ==
    /\ pc = "entry"
    /\ IF Len(redeem) = 0 \/ Len(contract) = 0 \/ len # Len(redeem)
       THEN Return(WALLY_EINVAL)
       ELSE pc' = "loop" /\ UNCHANGED ret
    /\ UNCHANGED <<redeem, contract, len, out, p, op_else_found>>

\* Fault variant: keys after OP_ELSE tweaked as well.
tweaks_push_ignoring_else(opcode_size, size_out, else_found) ==
    opcode_size = 1 /\ size_out = EC_PUBLIC_KEY_LEN

\* The push the loop replaces: a direct 33-byte push before OP_ELSE.
pegin_tweaks_push(opcode_size, size_out, else_found) ==
    opcode_size = 1 /\ size_out = EC_PUBLIC_KEY_LEN /\ ~else_found

\* Fault variant: the push opcode's own length not skipped.
pegin_offset_payload_only(size_out, opcode_size) == size_out

\* The bytes a push takes: its opcode and its payload.
pegin_offset(size_out, opcode_size) == size_out + opcode_size

(* One turn of the loop at offset p.  A push is handled as a whole: its   *)
(* key tweaked or its bytes copied.  offset_siz is a size_t sum, which in  *)
(* a 32-bit build can wrap to a few bytes or to 0; a turn that copies 0    *)
(* bytes leaves every variable as it was.  Any other byte, a push opcode   *)
(* whose payload runs past the end included, is copied alone, and an       *)
(* OP_ELSE among those bytes ends the tweaking.  The loop breaks once the  *)
(* whole script is consumed.                                               *)
Step ==
    LET rest == Drop(redeem, p)
        size_out == script_get_push_size_from_bytes(rest)
        opcode_size == script_get_push_opcode_size_from_bytes(rest).written
        offset_siz == pegin_offset(size_out.written, opcode_size)
        key == SubSeq(rest, 2, EC_PUBLIC_KEY_LEN + 1)
        Advance(n) == /\ p' = p + n
                      /\ IF p + n = Len(redeem) THEN Return(WALLY_OK) ELSE UNCHANGED <<pc, ret>>
    IN /\ pc = "loop"
       /\ \/ /\ size_out.ret = WALLY_OK
             /\ UNCHANGED op_else_found
             /\ IF SizeLess(Len(rest), offset_siz) THEN Return(WALLY_EINVAL) /\ UNCHANGED <<out, p>>
                ELSE IF pegin_tweaks_push(opcode_size, size_out.written, op_else_found)
                THEN IF ~pubkey_parse(key)
                     THEN Return(WALLY_ERROR) /\ UNCHANGED <<out, p>>
                     ELSE /\ out' = Store(out, p, <<EC_PUBLIC_KEY_LEN>> \o pegin_tweaked_key(key, contract))
                          /\ Advance(offset_siz)
                ELSE /\ out' = Store(out, p, SubSeq(rest, 1, offset_siz))
                     /\ Advance(offset_siz)
          \/ /\ size_out.ret # WALLY_OK
             /\ op_else_found' = (op_else_found \/ At(rest, 0) = OP_ELSE)
             /\ out' = Store(out, p, <<At(rest, 0)>>)
             /\ Advance(1)
       /\ UNCHANGED <<redeem, contract, len>>

Next == Enter \/ Step

\* The loop never waits on anything: once called, the function runs on.
Spec == Init /\ [][Next]_vars /\ WF_vars(Next)

-----------------------------------------------------------------------------
(* The loop implements the atomic rewrite of PeginAbstract: the buffer is *)
(* seen only when the call returns successfully.                           *)
Abs == INSTANCE PeginAbstract WITH
    result <- IF pc = "done" /\ ret = WALLY_OK THEN out ELSE Blank(redeem),
    status <- IF pc = "done" THEN ret ELSE "busy"

(* Stepping through the redeem script opcode by opcode, with the OP_ELSE  *)
(* flag and the truncated-push fallback of the code, returns what spec    *)
(* 4.7 asks for: the same length, every key push before the first         *)
(* OP_ELSE tweaked, every other byte unchanged at its offset, and         *)
(* WALLY_ERROR exactly when one of those keys does not parse.             *)
AtomicRewrite == Abs!SafeSpec

(* The for (;;) loop ends: every turn consumes at least one byte of the   *)
(* redeem script, so the call returns (the liveness half of Abs!Spec).    *)
Termination == <>(pc = "done")

=============================================================================
