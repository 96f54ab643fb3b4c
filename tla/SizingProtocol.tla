--------------------------- MODULE SizingProtocol ---------------------------
(***************************************************************************)
(* The two-phase sizing contract of the builders (spec 4.4): a caller      *)
(* calls a builder with the buffer it has; a call that finds the buffer    *)
(* too small answers OK with the size it needs in *written, and the        *)
(* caller then calls again with a buffer of exactly that size.  The state  *)
(* is the caller's: the call, the buffer size, and the answer.            *)
(***************************************************************************)
EXTENDS BuilderCalls

CONSTANT BigLen     \* a buffer larger than any script built here

VARIABLES
    phase,      \* "idle", "sized" (got a size answer), or "done"
    call,       \* the builder call being made
    len,        \* size of the buffer passed to it
    res         \* its answer: Res(ret, written, bytes stored)

pvars == <<phase, call, len, res>>

\* A size answer: OK, but the script needs more than the buffer holds.
IsSizeAnswer(r, l) == r.ret = WALLY_OK /\ r.written > l

PTypeOK ==
    /\ phase \in {"idle", "sized", "done"}
    /\ call \in Calls \cup {NoCall}
    /\ len \in Nat
    /\ res.ret \in {WALLY_OK, WALLY_EINVAL, WALLY_ERROR, "none"}
    /\ res.written \in Nat
    /\ res.out \in Seq(Byte \cup {UNTOUCHED})

PInit ==
    /\ phase = "idle"
    /\ call = NoCall
    /\ len = 0
    /\ res = Res("none", 0, <<>>)

\* A first call, with whatever buffer the caller has.  A behaviour is one
\* exchange: it ends ("done") with the script or an error.
CallBuilder(c, l) ==
    /\ phase = "idle"
    /\ call' = c
    /\ len' = l
    /\ res' = Invoke(c, l)
    /\ phase' = IF IsSizeAnswer(res', l) THEN "sized" ELSE "done"

\* The next call, with a buffer of exactly the size last reported; a caller
\* that gets another size answer calls again with that one.
Fill ==
    /\ phase = "sized"
    /\ len' = res.written
    /\ res' = Invoke(call, res.written)
    /\ phase' = IF IsSizeAnswer(res', res.written) THEN "sized" ELSE "done"
    /\ UNCHANGED call

PNext ==
    \/ \E c \in Calls, l \in BufLens : CallBuilder(c, l)
    \/ Fill

(* ENABLED <<Fill>>_pvars: a caller holding a size answer can always make *)
(* the next call, and that call changes len (a size answer exceeds len).  *)
FillEnabled == phase = "sized"

(* The caller's retry loop is its own code and keeps running: a caller    *)
(* holding a size answer makes the next call.  First calls are the        *)
(* caller's choice and get no fairness.  This is WF_pvars(Fill), written  *)
(* with FillEnabled for ENABLED <<Fill>>_pvars.                            *)
PSpec == PInit /\ [][PNext]_pvars /\ ([]<>~FillEnabled \/ []<><<Fill>>_pvars)

-----------------------------------------------------------------------------
(* No builder stores a byte past the end of the caller's buffer, on any   *)
(* path: complete, size answer or error.  In C this is the memory safety  *)
(* of every bytes_out write against len.                                  *)
NoBufferOverrun == Len(res.out) <= len

(* After a size answer, the call with a buffer of the reported size that  *)
(* succeeds fills exactly that many bytes: the size computed for the      *)
(* answer and the bytes emitted on the fill agree.                        *)
FillMatchesProbe ==
    [][phase = "sized" /\ phase' = "done" /\ res'.ret = WALLY_OK =>
         /\ res'.written = res.written
         /\ Len(res'.out) = res.written]_pvars

\* The calls the library carries out when the buffer is large enough.
Succeeding == {c \in Calls : Invoke(c, BigLen).ret = WALLY_OK}
CanSucceed(c) == c \in Succeeding

\* The caller holds the whole script: OK, with all *written bytes stored.
HoldsScript == phase = "done" /\ res.ret = WALLY_OK /\ Len(res.out) = res.written

(* A caller that follows the size answers of a scriptPubkey builder call   *)
(* that can succeed eventually gets the whole script: calling again with   *)
(* each reported size ends in OK with all the script's bytes in the        *)
(* buffer: not in an error, and not in an OK whose *written fits the       *)
(* buffer but whose bytes were never stored (spec 4.4, 4.7).               *)
SizeAnswersLeadToScript ==
    (phase = "sized" /\ call.fn # "pegout" /\ CanSucceed(call)) ~> HoldsScript

(* The same for wally_elements_pegout_script_from_bytes, whose            *)
(* pegout_script_push macro answers with the size reached so far when the *)
(* buffer runs out between pushes (spec 4.7).                              *)
PegoutSizeAnswersLeadToScript ==
    (phase = "sized" /\ call.fn = "pegout" /\ CanSucceed(call)) ~> HoldsScript

(* A complete pegout script is as long as wally_elements_pegout_script_size *)
(* says: the size function a caller may use instead of a probe and the    *)
(* stepwise pushes of the builder count the same bytes.                    *)
PegoutSizeAgrees ==
    call.fn = "pegout" /\ res.ret = WALLY_OK /\ Len(res.out) = res.written =>
        res.written = wally_elements_pegout_script_size(Len(call.genesis),
                          Len(call.mainchain), Len(call.sub), Len(call.proof))

(* A size answer is only given for a call that the fill will carry out:   *)
(* the second call, with the reported size, returns OK (spec 8: the probe *)
(* "always reports the exact length a second call with a sufficiently    *)
(* large buffer will consume").                                           *)
ProbeThenFillSucceeds ==
    [][phase = "sized" /\ phase' = "done" => res'.ret = WALLY_OK]_pvars

(* Any buffer smaller than a call's script gets the size answer, the      *)
(* empty buffer included (spec 8: "calling any builder with a zero-length *)
(* output buffer ... always reports the exact length").                   *)
SmallBufferGetsSize ==
    LET full == Invoke(call, BigLen)
    IN phase # "idle" /\ full.ret = WALLY_OK /\ len < full.written =>
           res.ret = WALLY_OK /\ res.written = full.written

=============================================================================
