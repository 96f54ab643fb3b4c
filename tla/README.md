# TLA+ models of libwally-core's script module

These modules model `src/src/script.c` of libwally-core. That file holds the
Bitcoin and Elements script builders, the script classifier and the integer
and push codecs. The library is a set of pure, single-threaded C functions
that keep no state between calls. A model's state is therefore the caller's:
- the script a caller has built;
- what happened to that script afterwards;
- the answers the library gave.

## The system

| Part | Code (script.c) | What it does |
|---|---|---|
| push-opcode codec | 63-116, 895-961 | encodes data as a push opcode (direct, PUSHDATA1/2/4) and decodes its sizes |
| script-integer codec | 160-220 | minimal little-endian signed integers with a sign bit, as used for CSV delays |
| varint / varbuff codec | 118-155, 289-316, 963-1001 | Bitcoin CompactSize integers and length-prefixed buffers |
| scriptPubkey classifier | 328-534 | template matchers (`scriptpubkey_is_...`), `wally_scriptpubkey_get_type`, the CSV-delay accessor |
| scriptPubkey builders | 536-725, 793-893, 1003-1056, 1299-1341 | p2pkh, p2sh, op_return, multisig, two CSV 2-of-2-then-1 templates, witness program, p2tr |
| scriptSig builders | 572-628, 727-791 | p2pkh and multisig scriptSigs from signatures |
| witness builders | 1213-1297, 1343-1405 | witness stacks from scriptSigs and signatures |
| Elements commitments | 222-287, 318-326 | lengths and varint reading of confidential asset/value/nonce |
| Elements pegout / pegin | 1058-1210 | pegout OP_RETURN script; pegin contract key rewrite |
| `src/contrib/wally_js_example.html` | — | browser demo page, no library logic |

How the parts interact:
- Every builder emits its pushes through `wally_script_push_from_bytes`.
- The CSV builders encode the delay with `scriptint_to_bytes`.
- The classifier decodes pushes with `get_push_size` and delays with
  `scriptint_from_bytes`.
- Builder and classifier must therefore agree byte for byte on every template
  offset and length.

All builders share one **sizing protocol** (spec 4.4 and 8). A call whose
buffer is too small returns `WALLY_OK` with the needed size in `*written`. The
caller then calls again with a buffer of that size.

Where this code is hard to test, the hazards in `PROJECT.json` list the exact
lines. There are no threads, no persistence and no messages. The difficulty
lies in three places:
- **byte boundaries:** sign bytes at delays 128 and 32768, push opcodes at 76
  and 256, length windows;
- **call sequences:** probe then fill; a builder's output that is later altered
  and classified;
- **partial writes:** a size answer or an error that leaves bytes in the
  buffer.

## Modules

- `ScriptCodec`: constants, the push codec, the small-integer opcodes and the
  script-integer codec, written as operators.
  - A byte string is a TLA+ sequence. `At(s,k)` is C's `bytes[k]` and
    `Drop(s,k)` is C's `bytes + k`, so the offsets read as in the source.
  - A call's result is `Res(ret, written, out)`. `out` is every byte the call
    stored into the buffer, also on size-answer and error paths.
  - `UNTOUCHED` marks a buffer byte that was skipped.
  - A PUSHDATA2/4 length is read little-endian (`LE`) as a `size_t` of
    `SIZE_T_BITS` bits: 64 by default, 32 on wasm32. A length of 2^30 or
    more is represented by 2^30: it exceeds every script modelled, so
    `push_exceeds` (line 111) has the same outcome. With a 32-bit `size_t`,
    a length within 256 of 2^32 is held as its two's-complement negative,
    so `opcode_len + size` wraps as in C; `SizeLess` compares such values
    as the unsigned numbers they are.
- `Classifier`: the matchers, `wally_scriptpubkey_get_type` with its
  precedence, and the CSV-delay accessor. The multisig matcher's `for` loop is
  the recursive `MultisigPushes`.
- `Builders`: the scriptPubkey builders, each one an operator of its inputs
  and the buffer size `len`.
  - The code order of each guard is kept, including the places where the size
    answer comes before validation (p2pkh, p2tr).
  - The writes on the size-answer path are kept too (op_return, witness
    program).
  - Hashes and the BIP341 tweak are opaque: only their output length matters.
- `BuilderCalls`: the caller's set of builder calls, `Calls`, drawn from
  constant key, hash and payload sets, plus `Invoke(c, len)` to dispatch them.
  With a non-empty `Sigs` it adds the scriptSig calls: p2pkh from each
  signature, and multisig from one or two signatures over a 1-of-1 or a
  2-of-3 redeem script built by the multisig scriptPubkey builder.
- `ScriptPubkey`: the life of one script, with these actions:
  - `Build`: a builder call that returned a complete script;
  - `EditByte` and `AppendByte`: a script received altered from the network,
    at most `MaxEdits` times;
  - `GetType` and `GetCsvBlocks`: the two classifier entry points.
- `SizingProtocol`: the two-call exchange, with these actions:
  - `CallBuilder`: a first call with any buffer length in `BufLens`;
  - `Fill`: the second call with exactly the reported size.
  - A behaviour is one exchange: it ends in "done" with the script or an
    error, which is why the sizing cfgs say `CHECK_DEADLOCK FALSE`.
  - The caller's retry loop is weakly fair on `Fill` (see Fairness).
  - The pegout builder is one of the calls. `pegout_script_push` is the
    macro at lines 1085-1092, written as a recursion over the four pushes.
    It keeps the early `return WALLY_OK` with the partial `*written` and
    the `return ret` of a failed push.
- `Pegin`: `wally_elements_pegin_contract_script_from_bytes`, one step per
  turn of its `for (;;)` loop.
  - `p` is the offset of both pointers `p` and `q`, and `op_else_found` is
    the code's flag. `pc` is "entry", "loop" or "done".
  - `Enter` is the argument check (1140-1142). `Step` is one turn: a push,
    either tweaked (1158-1177) or copied (1192), or a lone byte (1196-1202).
    A turn returns OK once `bytes_len` reaches 0.
  - The HMAC/EC tweak is opaque and keeps the key's prefix byte. The EC
    self-check at 1179-1189 fails only on a faulty EC backend and is left
    out. A key that does not parse gives the input-driven `WALLY_ERROR`.
  - The check at 1151 cannot fail once `get_push_size` has succeeded. The
    check at 1155 (`bytes_len < offset_siz`) is kept: with a 64-bit
    `size_t` it never fails, with a 32-bit one a wrapped `offset_siz` can
    make it fail or, when it wraps to 0, pass with a turn that copies
    nothing and leaves every variable as it was.
- `PeginAbstract`: what the rewrite promises, as one atomic step.
  - The redeem script is split into tokens. A push whose payload runs past
    the end takes the rest of the script as data.
  - Every 33-byte direct push before the first OP_ELSE token is replaced.
  - The result is `WALLY_ERROR` exactly when one of those keys does not
    parse, and `WALLY_EINVAL` on bad arguments.
  - `Pegin` maps onto it by `Abs == INSTANCE PeginAbstract WITH ...`. The
    abstract `result` is the buffer once the call has returned OK, and is
    blank before that.
- `IntCodec`: the varint (CompactSize) and varbuff codecs and their
  `wally_varint_*` / `wally_varbuff_*` wrappers.
  - A `uint64_t` is its 8 little-endian bytes (`U64`), since 64-bit values
    exceed TLC's integers. `v <= VI_MAX_16` reads as "the top six bytes are
    zero".
  - The caller encodes a value or a buffer into `len` bytes (`VarintToBytes`,
    `VarbuffToBytes`). The properties decode what was written.
- `ScriptSig`: the scriptSig builders.
  - `wally_ec_sig_to_der` lives outside script.c. It is modelled by the DER
    layout: leading zero bytes of r and s are stripped, and a zero byte is
    prepended where the top bit is set. DER lengths from 8 to 72 bytes
    therefore occur.
  - The multisig fill stores OP_0 and the signature pushes, then pushes the
    script into what is left, with the "should not happen" `WALLY_ERROR`
    check of line 784.
- `Witness`: `scriptsig_to_witness` and the witness builders, on top of
  `ScriptSig`.
  - The witness-stack container's allocations may fail. The n-th allocation
    of a call fails when `fail_at = n`. The stack is allocation 1 and each
    item the next one; the multisig builder's scratch buffer comes first.
  - The push-splitting `while` loop is the recursive `witness_items`. It
    stops at the first failure, and `witness_result` frees the stack then.
  - A witness is a record `[null, items]`. `NoStack` is `*witness = NULL`.
  - `Call(c)` is one builder call; the state is the last call and its answer.
- `Commitment`: `get_commitment_len`, `confidential_commitment_varint_from_bytes`,
  the asset/value/nonce wrappers and `confidential_value_to_bytes`.
  - A parser reads one field's first byte through both accessors
    (`ReadField`), or reads back a value it serialized (`WriteValue`).
  - The prefix values come from `wally_transaction.h`.
- `Codecs`: `IntCodec` and `Commitment` side by side, as a transaction
  parser calls them. They share no state; a step is one call of either, and
  clears the other codec's last answer, so the state space is the sum of the
  two rather than their product.
- `MCValues`, `MCScriptPubkey`, `MCSizingProtocol`, `MCPegin`, `MCIntCodec`,
  `MCWitness`, `MCCommitment`, `MCCodecs`: the concrete values for TLC.
  - Two compressed keys, one of which starts with prefix 3 and contains
    OP_ELSE bytes.
  - One 20-byte hash.
  - Payloads of 0, 1, 32, 80 and 81 bytes: the empty push, PUSHDATA1, and one
    byte past the OP_RETURN limit.
  - CSV delays 16, 17, 127, 128, 32767, 32768, 65535 and 65536: each side of
    each range limit and of each sign-byte boundary.
  - The buffer lengths cover 0 and 1, and one below and at each template
    size.

## Runs

| Run | Expect | What it shows |
|---|---|---|
| `scriptpubkey_roundtrip` (MCScriptPubkey.cfg) | pass | Every script a builder emits is classified as its template, and the CSV accessor gives back the delay it was built with. `BuildClassifyRoundTrip` ties builder offsets to matcher offsets. `TypeOK` includes the CSV accessor's 0..65535 range on altered scripts. |
| `sizing_pass` (MCSizingProtocol.cfg) | pass | Over the scriptPubkey, pegout and scriptSig builders. `NoBufferOverrun`: no builder stores past `len` on any path. `FillMatchesProbe`: a successful fill writes exactly the probed size. `PegoutSizeAgrees`: a complete pegout script is as long as `wally_elements_pegout_script_size` says. `SizeAnswersLeadToScript`: for every scriptPubkey or scriptSig call that can succeed, a caller who follows the size answers eventually holds the whole script (OK, with all `*written` bytes stored). |
| `csv_window` | violation | `CsvClassifiedIsCanonical`: a CSV script with a byte appended is still classified CSV2OF2_1, because of the length window at line 402 and the `<` at line 418. |
| `probe_then_fill` | violation | `ProbeThenFillSucceeds`: p2tr (and p2pkh) give a size answer for a key that the fill then rejects with EINVAL. |
| `zero_len_probe` | violation | `SmallBufferGetsSize`: any buffer smaller than a call's script gets the size answer. A p2pkh scriptPubkey call with `len` 0 gets EINVAL (line 546); so do multisig, op_return and the witness program, and the p2pkh scriptSig answers every short buffer with EINVAL (line 613). Spec 8 promises the size for a zero-length buffer. |
| `pegout_retry` | violation | `PegoutSizeAnswersLeadToScript`: the same liveness for the pegout builder. A 33-byte buffer gets the partial answer 34. The call with 34 bytes pushes the mainchain script into `len` 0 and gets EINVAL (line 1090). The zero-length re-probe of spec 4.7 is EINVAL too (line 1102). |
| `pegin_refines` (MCPegin.cfg) | pass | `AtomicRewrite`: on well-formed redeem scripts the loop implements `PeginAbstract`. That covers OP_ELSE handling, OP_0 and PUSHDATA1 pushes, keys that fail to parse, and a stray OP_ELSE byte inside push data. `Termination`: the loop returns on every input. |
| `pegin_truncated_push` | violation | `AtomicRewrite` on `<40, 33, key>`. The truncated 40-push is copied as a lone byte, and the key inside its payload is then tweaked. |
| `pegin_wasm32` (MCPegin_wasm32.cfg) | violation | `Termination` with a 32-bit `size_t`, as in the wasm32 build the JS example loads. A redeem script starting `OP_PUSHDATA4 251 255 255 255` announces 2^32-5 bytes; `opcode_len + size` wraps to 0 at line 111, the check at 1155 passes, and every turn of the `for (;;)` loop copies 0 bytes and advances by 0: the call never returns. |
| `witness_builds` (MCWitness.cfg) | pass | `ValidCallsBuildStack`: every witness builder given valid arguments, with the multisig signature count at most the threshold, returns OK with the stack of its scriptSig: the OP_0 empty item, each DER signature with its sighash byte, and the redeem script, also when that is pushed with PUSHDATA1 or PUSHDATA2. Invalid arguments never succeed. The allocation-failure paths are exercised but carry no property of their own. |
| `witness_extra_sigs` | violation | `ValidCallsBuildStack` with one signature more than the threshold. A 1-of-1 script with DER signatures of 8 and 70 bytes needs 121 bytes; the threshold-sized buffer has 113, and the call returns `WALLY_ERROR` (line 1399). |
| `codec_roundtrip` (MCCodecs.cfg) | pass | `VarintRoundTrip`: at 0, 252/253, 65535/65536, 2^32-1/2^32 and 2^64-1, `wally_varint_to_bytes` succeeds exactly when `len` is enough, and decoding gives back the value and the length every accessor reports. `VarbuffRoundTrip`: the same for buffers of 0, 252 and 253 bytes, with the payload after the length varint. `SameLengthWhenValid`: for every first byte and field, where the length accessor accepts the byte, the varint accessor gives the same length. `ValueWriteReadsBack`: a value written by `confidential_value_to_bytes`, the null value included, reads back at its written length. |

Each passing property has a mutant in `PROJECT.json`: a plausible bug in the
mapped code that TLC then catches under the same cfg.
- The CSV range without its upper bound breaks `TypeOK`.
- A scriptint length without its sign byte breaks `BuildClassifyRoundTrip`.
- Magnitude bytes without `& 0xff` break `PTypeOK`.
- A CSV size without its push byte breaks `NoBufferOverrun`.
- A CSV-opt size off by one breaks `FillMatchesProbe`.
- A pegout size without the OP_RETURN byte breaks `PegoutSizeAgrees`.
- A multisig scriptSig size without the script push breaks
  `SizeAnswersLeadToScript`: the fill with that size runs out of room for the
  script and fails, though no safety property is touched.
- An output pointer one byte ahead breaks `PeginTypeOK`.
- Tweaking keys after OP_ELSE breaks `AtomicRewrite`.
- An offset without the opcode byte breaks `Termination`: an OP_0 push
  never advances.
- A multisig scratch buffer without room for the sighash bytes breaks
  `ValidCallsBuildStack`.
- `VI_MAX_8` equal to the first tag (253) breaks `VarintRoundTrip`.
- A varbuff payload copied over its length varint breaks `VarbuffRoundTrip`.
- The value accessor ignoring `ct_value` breaks `SameLengthWhenValid`.
- An empty value written without its zero byte breaks `ValueWriteReadsBack`.

**Bounds.**
- `MaxEdits = 1`: one altered byte already reaches every mis-classification
  found. `Build` is enabled only before the first call, which keeps the
  ScriptPubkey run to about 140k states.
- The scriptSig calls use two 64-byte signatures whose DER forms are 8 and
  72 bytes, sighash 1 and 256, and multisig scriptSigs of one and two
  signatures: the sizes cross the one-byte push limit.
- `BigLen = 1000` is larger than every script built here. `sizing_pass`
  adds a 200-byte buffer so that pegout scripts (91 to 172 bytes) are
  completed, which gives `PegoutSizeAgrees` something to check.
- `MCPegin` takes every redeem script of up to three tokens from the
  following set:
  - key pushes of both keys and of an unparsable key;
  - OP_ELSE, OP_CHECKMULTISIG and OP_0;
  - a one-byte push of the OP_ELSE byte;
  - a PUSHDATA1 key push, which is not tweaked.

  This gives every order of key, OP_ELSE and other push up to length 3.
  Both a valid and an invalid `len` are included, and two contracts. The
  truncated-push run adds scripts whose first push runs past the end. The
  wasm32 run takes PUSHDATA4 headers announcing 2^32-6, 2^32-5 and 2^32-4
  bytes, alone or followed by a key push: the sum wraps to 2^32-1 (the
  check at 1155 fails), to 0 (the spin) and to 1.
- `MCWitness`: compressed, uncompressed and wrong-length keys; signatures
  whose DER form is 8, 70 and 72 bytes; DER inputs of 0 and 74 bytes beyond
  the valid ones; Schnorr signatures of 63, 64 and 65 bytes; multisig
  scripts 1-of-1, 2-of-3 (PUSHDATA1), 1-of-8 (PUSHDATA2) and two whose first
  byte is OP_0 or OP_16; sighash 1 and 256; `MaxSigs = 2`; every allocation
  failure point 1..5. `MaxExtraSigs = 0` in the passing run, 1 in the
  violation run.
- `MCIntCodec`: the values on each side of every varint size class, buffers
  of 0, 252 and 253 bytes, and buffer lengths at and one below every
  encoded size.
- `MCCommitment`: all 256 first bytes for each field, and values of 0, 9 and
  33 bytes.

**Fairness.**
- `SizingProtocol` assumes `WF_pvars(Fill)`. A caller holding a size answer
  makes the next call: the retry loop is the caller's own code. First calls
  are the caller's choice and get no fairness. It is written out as
  `[]<>~FillEnabled \/ []<><<Fill>>_pvars` with `FillEnabled == phase =
  "sized"`, which is `ENABLED <<Fill>>_pvars` (a size answer always exceeds
  `len`, so the next call changes it); TLC would otherwise evaluate the
  multisig builder again for every `ENABLED` test.
- `Pegin` assumes `WF_vars(Next)`. The C loop never blocks or waits, so once
  called it keeps taking turns. A turn that changes nothing (the 32-bit
  spin) is a stutter, which weak fairness cannot force past: this is exactly
  a loop that keeps running without progress, and `Termination` fails on it.
  With the default 64-bit `size_t` every turn advances `p`.
- All other properties are safety properties.

The refinement is checked as `Abs!SafeSpec` plus `Termination`, in the same run.
Together these are the abstract `Spec`, whose liveness is the eventual
return.

**Divergences seen while modelling that have no run.** Each was found by
TLC while the model was built; the project keeps one violation run per
question about callers, and these three are left as hazards in
`PROJECT.json`:
- The multisig matcher never checks m ≤ n (line 377):
  `OP_3 <k> <k> OP_2 OP_CHECKMULTISIG` is classified MULTISIG.
- op_return stores OP_RETURN (line 645), and the witness program builder
  its version opcode (line 1037), in a buffer they then report as too
  small; spec 4.4 says a size answer performs no partial write.
- `confidential_commitment_varint_from_bytes` accepts any of the six blinded
  prefixes for every field and answers 33 (lines 246-252), where
  `get_commitment_len` answers 0 for another field's prefix; spec 4.6 says
  the varint accessor returns the same length as a tag.

## Not modelled

- **The pegin EC self-check (1179-1189):** it fails only when the EC
  backend is faulty.
- **`-INT64_MIN` in `scriptint_get_length` (line 162):** unreachable from
  this file. Its only callers are the CSV builders and matchers, which pass
  a `uint32_t` delay of at most 65535.
- **DER parsing failures:** every modelled signature parses; a signature
  `wally_ec_sig_to_der` rejects is the same EINVAL path as a wrong length.
- **NULL-pointer guards:** the modelled callers never pass NULL.
- **The hash and EC primitives:** they live outside script.c and are opaque
  stand-ins that keep only their output length.
- **The JS demo page:** it holds no library logic. The 32-bit `size_t` of
  its wasm build is checked by the `pegin_wasm32` run.

Every operation of script.c that writes a caller's buffer or a witness stack
is an operator of a module and is called by an action of a harness; what is
left above is either outside the file or unreachable from it.
