---------------------------- MODULE ScriptPubkey ----------------------------
(***************************************************************************)
(* A caller of the scriptPubkey builders and of the classifier.  It builds *)
(* a script with one of the builders, may receive it altered (a script     *)
(* read from a transaction is arbitrary bytes: a byte replaced or one      *)
(* appended, at most MaxEdits times), and classifies it with               *)
(* wally_scriptpubkey_get_type and the CSV-delay accessor.  The library    *)
(* keeps no state between calls; the state here is the caller's.           *)
(***************************************************************************)
EXTENDS BuilderCalls

CONSTANTS
    EditBytes,      \* byte values an altered script may contain
    MaxEdits        \* bound on alterations of one built script

ASSUME MaxEdits \in Nat

VARIABLES
    script,     \* the caller's script bytes
    origin,     \* the builder call that produced script
    edits,      \* alterations applied to script since it was built
    type,       \* last result of wally_scriptpubkey_get_type, or NoType
    csv         \* last result of the CSV-delay accessor, or NoCsvResult

vars == <<script, origin, edits, type, csv>>

NoType == "none"
NoCsvResult == [ret |-> "none", value |-> 0]

TypeOK ==
    /\ script \in Seq(Byte)
    /\ origin \in Calls \cup {NoCall}
    /\ edits \in 0..MaxEdits
    /\ type \in ScriptTypes \cup {NoType}
    /\ csv \in [ret : {WALLY_OK, WALLY_EINVAL}, value : 0..65535] \cup {NoCsvResult}

Init ==
    /\ script = <<>>
    /\ origin = NoCall
    /\ edits = 0
    /\ type = NoType
    /\ csv = NoCsvResult

(* The caller's one builder call, into a buffer of len bytes.  Only a     *)
(* call that returned OK with the whole script in the buffer gives the    *)
(* caller a script; an error or a size answer leaves the caller as it was *)
(* (the probe-then-fill exchange is the subject of SizingProtocol).       *)
Build(c, len) ==
    LET r == Invoke(c, len)
    IN /\ origin = NoCall
       /\ r.ret = WALLY_OK
       /\ r.written <= len
       /\ script' = r.out
       /\ origin' = c
       /\ edits' = 0
       /\ type' = NoType
       /\ csv' = NoCsvResult

\* The script arrives with one byte replaced ...
EditByte(i, b) ==
    /\ edits < MaxEdits
    /\ i \in DOMAIN script
    /\ script' = [script EXCEPT ![i] = b]
    /\ edits' = edits + 1
    /\ type' = NoType
    /\ csv' = NoCsvResult
    /\ UNCHANGED origin

\* ... or with one byte more at its end.
AppendByte(b) ==
    /\ edits < MaxEdits
    /\ script # <<>>
    /\ script' = Append(script, b)
    /\ edits' = edits + 1
    /\ type' = NoType
    /\ csv' = NoCsvResult
    /\ UNCHANGED origin

GetType ==
    /\ script # <<>>
    /\ type' = wally_scriptpubkey_get_type(script).type
    /\ UNCHANGED <<script, origin, edits, csv>>

GetCsvBlocks ==
    /\ script # <<>>
    /\ csv' = wally_scriptpubkey_csv_blocks_from_csv_2of2_then_1(script)
    /\ UNCHANGED <<script, origin, edits, type>>

Next ==
    \/ \E c \in Calls, len \in BufLens : Build(c, len)
    \/ \E i \in 1..Len(script), b \in EditBytes : EditByte(i, b)
    \/ \E b \in EditBytes : AppendByte(b)
    \/ GetType
    \/ GetCsvBlocks

Spec == Init /\ [][Next]_vars

-----------------------------------------------------------------------------
(* What each builder promises to produce, stated from the templates of    *)
(* the scriptPubkey types, independently of the code that builds them.    *)
ProgramLen(c) ==
    IF WALLY_SCRIPT_SHA256 \in c.flags THEN SHA256_LEN ELSE Len(c.bytes)

ExpectedType(c) ==
    CASE c.fn = "p2pkh"     -> TYPE_P2PKH
      [] c.fn = "p2sh"      -> TYPE_P2SH
      [] c.fn \in {"op_return", "pegout"} -> TYPE_OP_RETURN
      [] c.fn = "multisig"  -> TYPE_MULTISIG
      [] c.fn = "csv"       -> TYPE_CSV2OF2_1
      [] c.fn = "csv_opt"   -> TYPE_CSV2OF2_1_OPT
      [] c.fn = "p2tr"      -> TYPE_P2TR
      [] c.fn = "witness"   ->
            IF WALLY_SCRIPT_AS_PUSH \in c.flags THEN TYPE_UNKNOWN
            ELSE IF c.version = 0 /\ ProgramLen(c) = HASH160_LEN THEN TYPE_P2WPKH
            ELSE IF c.version = 0 /\ ProgramLen(c) = SHA256_LEN THEN TYPE_P2WSH
            ELSE IF c.version = 1 /\ ProgramLen(c) = SHA256_LEN THEN TYPE_P2TR
            ELSE TYPE_UNKNOWN

ExpectedCsv(c) ==
    IF c.fn \in {"csv", "csv_opt"} THEN [ret |-> WALLY_OK, value |-> c.blocks]
    ELSE [ret |-> WALLY_EINVAL, value |-> 0]

(* Round trip between the builders and the classifier: a script exactly   *)
(* as a builder emitted it is classified as that builder's template, and  *)
(* the CSV-delay accessor returns the delay it was built with (and        *)
(* rejects every other template).  This ties the byte offsets and lengths *)
(* the builders write to the offsets and length windows the matchers read.*)
BuildClassifyRoundTrip ==
    edits = 0 /\ origin # NoCall =>
        /\ type # NoType => type = ExpectedType(origin)
        /\ csv # NoCsvResult => csv = ExpectedCsv(origin)

(* The canonical CSV scripts: what the two builders emit for the keys     *)
(* found at the template's key offsets and the delay the accessor         *)
(* decoded.                                                                *)
CanonicalCsv(s, blocks) ==
    LET n == Len(s)
        a == wally_scriptpubkey_csv_2of2_then_1_from_bytes(
                 SubSeq(s, 5, 37) \o SubSeq(s, n - 33, n - 1), blocks, {}, n)
        b == wally_scriptpubkey_csv_2of2_then_1_from_bytes_opt(
                 SubSeq(s, 37, 69) \o SubSeq(s, 2, 34), blocks, {}, n)
    IN s = a.out \/ s = b.out

(* The classifier accepts a CSV template only in its exact layout: a      *)
(* script classified CSV2OF2_1 or CSV2OF2_1_OPT is byte for byte the      *)
(* script the matching builder emits for its keys and delay (spec 4.3:    *)
(* the classifier must reject every other layout).                         *)
CsvClassifiedIsCanonical ==
    type \in {TYPE_CSV2OF2_1, TYPE_CSV2OF2_1_OPT} =>
        CanonicalCsv(script, wally_scriptpubkey_csv_blocks_from_csv_2of2_then_1(script).value)

=============================================================================
