-------------------------- MODULE MCSizingProtocol --------------------------
(***************************************************************************)
(* SizingProtocol for TLC: the arguments of MCValues and first-call        *)
(* buffers at 0, 1, 2 and one byte either side of the fixed template      *)
(* sizes (P2PKH 25, P2TR 34, CSV 79..81).                                  *)
(***************************************************************************)
EXTENDS SizingProtocol, MCValues

MCBufLens == {0, 1, 2, 24, 25, 33, 34, 78, 79, 80}
MCBigLen == 1000
\* with a buffer that holds every pegout script built here (91 to 175 bytes).
MCBufLensWithLarge == MCBufLens \cup {200}
\* the scriptPubkey builders without the pegout builder.
MCNoPegoutScripts == {}
\* first-call buffers below each template size, which get a size answer.
MCShortBufLens == {0, 1, 2, 24, 33, 78}
=============================================================================
