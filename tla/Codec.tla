------------------------------- MODULE Codec --------------------------------
(***************************************************************************)
(* Two implementations of one byte format: bincode as the node uses it     *)
(* (crates/ivory-core/src/quant.rs, block.rs, crates/ivory-crypto/src/     *)
(* tx.rs) and sdk/python/ivory_client/codec.py.                            *)
(*                                                                         *)
(* Bytes are scaled down: an integer takes one symbol whatever its width,  *)
(* a hash HashLen symbols, a character one.  An address, a key, a number   *)
(* of 256 bits or a signature is one symbol.  Decoders carry on with what  *)
(* is left to read, what was read, and whether reading went well.          *)
(***************************************************************************)
EXTENDS Integers, SequencesExt

CONSTANT HashLen    \* stands for 32

ASSUME HashLenAssumption == HashLen \in Nat \ {0}

Magic == 99                     \* IQNT
SchemaVersion == 1
Absence == <<>>                 \* None; Some(x) is <<x>>

Text(s) == <<Len(s)>> \o s
OptionText(o) == IF o = Absence THEN <<0>> ELSE <<1>> \o Text(o[1])
OptionHash(o) == IF o = Absence THEN <<0>> ELSE <<1>> \o o[1]

\* QuantEnvelope::encode: the fields of the struct in their order
RustEncode(env) ==
    <<Magic>> \o <<env.version>> \o Text(env.decision_id) \o Text(env.schema)
        \o <<Len(env.metrics)>>
        \o FlattenSeq([i \in 1 .. Len(env.metrics) |->
                          Text(env.metrics[i].name) \o Text(env.metrics[i].value)])
        \o OptionHash(env.content_hash) \o OptionText(env.cid)

\* Mutant: the two options swapped.
PythonEncodeCidFirst(env) ==
    <<Magic>> \o <<env.version>> \o Text(env.decision_id) \o Text(env.schema)
        \o <<Len(env.metrics)>>
        \o FlattenSeq([i \in 1 .. Len(env.metrics) |->
                          Text(env.metrics[i].name) \o Text(env.metrics[i].value)])
        \o OptionText(env.cid) \o OptionHash(env.content_hash)

\* encode_envelope
PythonEncode(env) ==
    LET body == <<env.version>> \o Text(env.decision_id) \o Text(env.schema)
        metrics == FoldLeft(LAMBDA out, m : out \o Text(m.name) \o Text(m.value),
                            <<Len(env.metrics)>>, env.metrics)
        hash == OptionHash(env.content_hash)
        cid == IF env.cid = Absence THEN <<0>> ELSE <<1>> \o Text(env.cid[1])
    IN  <<Magic>> \o body \o metrics \o hash \o cid
-----------------------------------------------------------------------------
Reading(view) == [ok |-> TRUE, view |-> view, out |-> <<>>]
Failing == [ok |-> FALSE, view |-> <<>>, out |-> <<>>]

\* n symbols of the view: bincode fails when there are fewer, a Python slice
\* is just shorter
Strict(st, n) == st.ok /\ Len(st.view) >= n
Took(st, n) ==
    LET m == IF n < Len(st.view) THEN n ELSE Len(st.view)
    IN  [st EXCEPT !.view = SubSeq(@, m + 1, Len(@)), !.out = Append(@, SubSeq(st.view, 1, m))]

\* an integer, which both sides fail to read from nothing
TakeInt(st) ==
    IF ~Strict(st, 1) THEN Failing
    ELSE [st EXCEPT !.view = Tail(@), !.out = Append(@, Head(st.view))]

\* the integer read last, taken off again
LastInt(st) == st.out[Len(st.out)]
Popped(st) == [st EXCEPT !.out = SubSeq(@, 1, Len(@) - 1)]

RustText(st) ==
    LET n == TakeInt(st)
    IN  IF ~n.ok \/ ~Strict(n, LastInt(n)) THEN Failing ELSE Took(Popped(n), LastInt(n))

PythonText(st) ==
    LET n == TakeInt(st) IN IF ~n.ok THEN Failing ELSE Took(Popped(n), LastInt(n))

\* The metrics: a count, then as many pairs of texts.
RustMetrics(st) ==
    LET n == TakeInt(st)
    IN  IF ~n.ok THEN Failing
        ELSE FoldLeft(LAMBDA acc, i : RustText(acc), n, [i \in 1 .. 2 * LastInt(n) |-> i])
PythonMetrics(st) ==
    LET n == TakeInt(st)
    IN  IF ~n.ok THEN Failing
        ELSE FoldLeft(LAMBDA acc, i : PythonText(acc), n, [i \in 1 .. 2 * LastInt(n) |-> i])

\* Mutant: any tag but 0 is Some.
RustTagAny(st) ==
    LET tag == TakeInt(st)
    IN  IF tag.ok /\ LastInt(tag) # 0 THEN [tag EXCEPT !.out[Len(tag.out)] = 1] ELSE tag

\* An option: bincode knows the tags 0 and 1, Python reads any other as None.
RustTag(st) ==
    LET tag == TakeInt(st) IN IF tag.ok /\ LastInt(tag) \in {0, 1} THEN tag ELSE Failing
PythonTag(st) ==
    LET tag == TakeInt(st)
    IN  IF tag.ok /\ LastInt(tag) # 1 THEN [tag EXCEPT !.out[Len(tag.out)] = 0] ELSE tag
IsSome(tag) == tag.ok /\ LastInt(tag) = 1

RustHash(st) == IF Strict(st, HashLen) THEN Took(st, HashLen) ELSE Failing
PythonHash(st) == Took(st, HashLen)

\* The checks after the fields: the version, and a decision_id
Checked(st) ==
    IF st.ok /\ st.out[1] = SchemaVersion /\ st.out[2] # <<>> THEN st.out ELSE Absence

HasMagic(data) == data # <<>> /\ data[1] = Magic

\* QuantEnvelope::decode; bincode leaves bytes after the value unread
RustDecode(data) ==
    IF ~HasMagic(data) THEN Absence
    ELSE LET start == RustText(RustText(TakeInt(Reading(Tail(data)))))
             hashTag == RustTag(RustMetrics(start))
             cidTag == RustTag(IF IsSome(hashTag) THEN RustHash(hashTag) ELSE hashTag)
         IN  Checked(IF IsSome(cidTag) THEN RustText(cidTag) ELSE cidTag)

\* decode_envelope
PythonDecode(data) ==
    IF ~HasMagic(data) THEN Absence
    ELSE LET start == PythonText(PythonText(TakeInt(Reading(Tail(data)))))
             hashTag == PythonTag(PythonMetrics(start))
             cidTag == PythonTag(IF IsSome(hashTag) THEN PythonHash(hashTag) ELSE hashTag)
         IN  Checked(IF IsSome(cidTag) THEN PythonText(cidTag) ELSE cidTag)
-----------------------------------------------------------------------------
\* Transactions.  The hash of bytes is the bytes; a signature is [by, over].

\* bincode of UnsignedTransaction, the input of signing_hash
RustUnsigned(tx) ==
    <<tx.from>> \o (IF tx.to = Absence THEN <<0>> ELSE <<1, tx.to[1]>>)
        \o <<tx.value>> \o Text(tx.data) \o <<tx.gas_price, tx.gas, tx.nonce>>

\* Mutant: gas and nonce in the other order.
PythonUnsignedSwapped(sender, to, value, data, gasPrice, gas, nonce) ==
    <<sender>> \o (IF to = Absence THEN <<0>> ELSE <<1>> \o to)
        \o <<value>> \o Text(data) \o <<gasPrice>> \o <<nonce>> \o <<gas>>

\* encode_unsigned_tx
PythonUnsigned(sender, to, value, data, gasPrice, gas, nonce) ==
    <<sender>> \o (IF to = Absence THEN <<0>> ELSE <<1>> \o to)
        \o <<value>> \o Text(data) \o <<gasPrice>> \o <<gas>> \o <<nonce>>

\* encode_signed_tx: the payload, whose hash is the transaction's
PythonSigned(key, to, nonce, value, gas, gasPrice, data) ==
    LET unsigned == PythonUnsigned(key, to, value, data, gasPrice, gas, nonce)
    IN  unsigned \o <<[by |-> key, over |-> unsigned]>> \o <<key>>

\* bincode::deserialize::<Transaction>, of a payload of the right length
RustDecodeTx(bytes) ==
    LET hasTo == bytes[2]
        at == 3 + hasTo                 \* the value
        len == bytes[at + 1]
        after == at + 1 + len
    IN  [from |-> bytes[1], to |-> SubSeq(bytes, 3, 2 + hasTo), value |-> bytes[at],
         data |-> SubSeq(bytes, at + 2, after), gas_price |-> bytes[after + 1],
         gas |-> bytes[after + 2], nonce |-> bytes[after + 3],
         signature |-> bytes[after + 4], public_key |-> bytes[after + 5]]

\* bincode of Transaction, the input of Transaction::hash
RustBytes(tx) == RustUnsigned(tx) \o <<tx.signature, tx.public_key>>

\* recover_sender: the address of a key is the key
RecoverSender(tx) ==
    tx.public_key = tx.from /\ tx.signature = [by |-> tx.public_key, over |-> RustUnsigned(tx)]

\* sign_transaction and signed_tx
SignTransaction(tx, key) ==
    LET signed == [tx EXCEPT !.public_key = key, !.from = key]
    IN  [signed EXCEPT !.signature = [by |-> key, over |-> RustUnsigned(signed)]]

\* The gas submit_decision and deploy_contract offer, against what
\* compute_intrinsic_gas_len asks for the same data.
TxGas == 21000
DataGas == 16
DeployExtra == 50000
OfferedGas(data) == TxGas + DataGas * Len(data)
DeployGas(wasm) == OfferedGas(wasm) + DeployExtra
IntrinsicGas(data) == TxGas + Len(data) * DataGas
-----------------------------------------------------------------------------
Decoded(env) ==
    <<env.version, env.decision_id, env.schema, Len(env.metrics)>>
        \o FlattenSeq([i \in 1 .. Len(env.metrics) |->
                          <<env.metrics[i].name, env.metrics[i].value>>])
        \o (IF env.content_hash = Absence THEN <<0>> ELSE <<1>> \o env.content_hash)
        \o (IF env.cid = Absence THEN <<0>> ELSE <<1>> \o env.cid)

\* The SDK and the node write the same envelope (codec.py encode_envelope,
\* quant.rs encode), and each reads the other's: all fields come back when the
\* version is the current one and decision_id is not empty, and only then.
EnvelopesAgree(env) ==
    LET good == env.version = SchemaVersion /\ env.decision_id # <<>>
        expected == IF good THEN Decoded(env) ELSE Absence
    IN  /\ PythonEncode(env) = RustEncode(env)
        /\ RustDecode(PythonEncode(env)) = expected
        /\ PythonDecode(RustEncode(env)) = expected

\* On any bytes, also cut short, padded or with a strange option tag, the SDK
\* shows what the node would: whatever quant.rs decode accepts, codec.py
\* decode_envelope reads to the same fields.
SdkReadsWhatNodeReads(data) ==
    RustDecode(data) # Absence => PythonDecode(data) = RustDecode(data)

\* A transaction the SDK signs (codec.py encode_signed_tx) is the transaction
\* asked for, its sender is recovered (crypto tx.rs recover_sender), the hash
\* the SDK returns is the node's, it is what sign_transaction would make, and
\* the gas submit_decision and ivory-dev offer covers the intrinsic gas.
SdkTransactionAccepted(key, to, nonce, value, gas, gasPrice, data) ==
    LET payload == PythonSigned(key, to, nonce, value, gas, gasPrice, data)
        tx == RustDecodeTx(payload)
        wanted == [from |-> key, to |-> to, value |-> value, data |-> data,
                   gas_price |-> gasPrice, gas |-> gas, nonce |-> nonce,
                   signature |-> [by |-> key, over |-> <<>>], public_key |-> key]
    IN  /\ tx = SignTransaction(wanted, key)
        /\ RecoverSender(tx)
        /\ RustBytes(tx) = payload
        /\ OfferedGas(data) >= IntrinsicGas(data)
        /\ DeployGas(data) >= IntrinsicGas(data)
=============================================================================
