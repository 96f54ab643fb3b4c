-------------------------------- MODULE Codecs --------------------------------
(***************************************************************************)
(* The serialization codecs a transaction parser calls side by side: the   *)
(* varint/varbuff codec (IntCodec) and the confidential-commitment        *)
(* accessors (Commitment).  They share no state; a caller makes one call   *)
(* at a time and holds the answer of its last call only, so a call to one *)
(* codec clears what the caller held from the other.                      *)
(***************************************************************************)
EXTENDS IntCodec, Commitment

codec_vars == <<ivars, cvars>>

CodecInit == IInit /\ CInit

\* The caller holds no answer from the varint codec (IInit), resp. from
\* the commitment accessors (CInit).
IClear == input' = [kind |-> "none"] /\ len' = 0 /\ res' = Fail("none")
CClear == field' = "none" /\ byte' = 0 /\ length' = 0 /\ varint' = [v |-> 0, n |-> 0] /\ written' = 0

CodecNext ==
    \/ INext /\ CClear
    \/ CNext /\ IClear

CodecSpec == CodecInit /\ [][CodecNext]_codec_vars
=============================================================================
