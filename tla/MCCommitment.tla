----------------------------- MODULE MCCommitment -----------------------------
(***************************************************************************)
(* Commitment for TLC: every possible first byte of every field, and a    *)
(* null, an explicit and a blinded value written and read back.           *)
(***************************************************************************)
EXTENDS Commitment

MCFirstBytes == Byte
\* the empty (null) value, an explicit value and a blinded value commitment.
MCValueFields == {<<>>, <<WALLY_TX_ASSET_CT_EXPLICIT_PREFIX>> \o [i \in 1..8 |-> 5],
                  <<WALLY_TX_ASSET_CT_VALUE_PREFIX_A>> \o [i \in 1..32 |-> 6]}
=============================================================================
