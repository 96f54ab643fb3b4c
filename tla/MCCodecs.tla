------------------------------- MODULE MCCodecs -------------------------------
(***************************************************************************)
(* Codecs for TLC, with the values of MCIntCodec and MCCommitment.         *)
(***************************************************************************)
EXTENDS Codecs, MCIntCodec, MCCommitment
=============================================================================
