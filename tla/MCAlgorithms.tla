---------------------------- MODULE MCAlgorithms ----------------------------
(***************************************************************************)
(* The sequential algorithms of the node and its clients, each checked on  *)
(* small inputs against what it should compute.  A behaviour takes up one  *)
(* input after another; the input of kind "state" is a StateDB and that of *)
(* kind "pool" the mempool, which go through any sequence of calls.        *)
(***************************************************************************)
EXTENDS MCTxPool, Rpc, Trie, StateDB, Codec, Settings, Packages

CONSTANTS k1, k2, k3, NoFile

MCBounds == <<1, 3>>

VARIABLE in

No == [kind |-> "none"]
Is(kind) == in.kind = kind
-----------------------------------------------------------------------------
\* Numbers and texts: limbs at their ends, digits around the ends of a text.
Corner == [0 .. 3 -> {0, 1, Base - 1}]
Spread == [0 .. 3 -> {0, 1, 2, 8, Base - 1}]
Texts ==
    [prefix: {<<>>, <<"0x">>, <<"0X">>, <<"0x", "0x">>, <<"0x", "0X">>, <<"0X", "0x">>},
     digits: {[i \in 1 .. n |-> IF i = bad THEN NotHex ELSE IF i \in {k, n} THEN 1 ELSE 0] :
                n \in 0 .. 2 * H256Len + 2, k \in {0, 1, 3}, bad \in {0, 1, 4, 16}}]

Pair == \E a, b \in Corner : in' = [kind |-> "pair", a |-> a, b |-> b]
Shift == \E a \in Spread, n \in 0 .. BitWidth + 1 : in' = [kind |-> "shift", a |-> a, n |-> n]
Power == \E a \in Corner, n \in 0 .. 7 : in' = [kind |-> "power", a |-> a, n |-> n]
HexText == \E t \in Texts : in' = [kind |-> "text", text |-> t]
Quantity == \E t \in Texts, n \in Limb : in' = [kind |-> "quantity", n |-> n, text |-> t]

\* Tries of up to three pairs, a key a prefix of another.
TrieKeys == {<<0>>, <<3>>, <<0, 1>>, <<0, 2>>}
Pairs == UNION {[1 .. n -> TrieKeys \X {"u", "v"}] : n \in 0 .. 2}
Triples == {<< <<a, "u">>, <<b, "v">>, <<c, "u">> >> : a, b, c \in TrieKeys}

Roots == \E p, q \in Pairs \cup Triples : in' = [kind |-> "roots", p |-> p, q |-> q]
Proof == \E p \in Pairs \cup Triples, k \in TrieKeys \cup {<<1>>} :
            in' = [kind |-> "proof", p |-> p, key |-> k]
Shown == \E p \in Triples, k, j \in TrieKeys, q \in Triples :
            in' = [kind |-> "shown", p |-> p, key |-> k, q |-> q, other |-> j]

State == in' = [kind |-> "state", db |-> NewState]
Ops ==
    [call: {"set_account"}, addr: Addr, owned: Owned \cup {Nothing}]
        \cup [call: {"set_storage"}, addr: Addr, slot: Slot, value: SlotValue \cup {0}]
        \cup [call: {"set_code"}, addr: {CHOOSE a \in Addr : TRUE}, code: Code]
StateStep == Is("state") /\ \E op \in Ops : in' = [in EXCEPT !.db = Apply(@, op)]
-----------------------------------------------------------------------------
\* Seals: one and two validators, an address without its key, two addresses
\* with one key.
Val2(address, key) == [address |-> address, key |-> key]
Configs ==
    [validators: {<<Val2(k1, k1)>>, <<Val2(k1, k1), Val2(k2, k2)>>, <<Val2(k1, k2)>>,
                  <<Val2(k1, k1), Val2(k2, k1)>>},
     required: 1 .. 2]
Unsealed == [miner: {k1, k3}, timestamp: 1 .. 2, extra: {NoExtra}]
SealSets(h) == {Sign(k, m) : k \in Key, m \in {h, [h EXCEPT !.timestamp = 3]}}
Extras(h) == [seals: UNION {[1 .. n -> SealSets(h)] : n \in 0 .. 2}, ragged: BOOLEAN]
Parents == {{}, {[timestamp |-> 1]}, {[timestamp |-> 2]}}

Header == \E c \in Configs, h \in Unsealed, p \in Parents : \E x \in Extras(h) :
            in' = [kind |-> "header", config |-> c, header |-> [h EXCEPT !.extra = x], parent |-> p]
Seal == \E c \in Configs, h \in Unsealed, m, s \in Key, p \in Parents :
            in' = [kind |-> "seal", config |-> c, header |-> h, miner |-> m, secret |-> s,
                   parent |-> p]

Blocks ==
    [header: [gasUsed: 0 .. 2, gasLimit: {1}, transactionsRoot: {<<>>, <<"t">>},
              receiptsRoot: {<<>>, <<"r">>}],
     transactions: {<<>>, <<"t">>, <<"u">>}, receipts: {<<>>, <<"r">>}]
Bodies == \E b \in Blocks, c \in Blocks : in' = [kind |-> "bodies", block |-> b, other |-> c]

\* Chains of three sealed headers from height 0 or up to the largest height.
OneKey == [validators |-> <<Val2(k1, k1)>>, required |-> 1]
SealedAs(n, time, parent, body, d) ==
    CHOOSE h \in SealHeader(OneKey,
        [number |-> n, timestamp |-> time, parent |-> parent, miner |-> k2, body |-> body,
         difficulty |-> d, extra |-> NoExtra], k1, k1) : TRUE
ChainOf(n, body, d) ==
    LET h1 == SealedAs(n, 1, NoHash, 0, d[1])
        h2 == SealedAs(n + 1, 1, h1, body, d[2])
    IN  <<h1, h2, SealedAs(n + 2, 2, h2, body, d[3])>>
NoDifficulty == <<Zero, Zero, Zero>>

LightChain == \E n \in {0, Base - 3}, d \in [1 .. 3 -> {Zero, One, Most}] :
                in' = [kind |-> "light", chain |-> ChainOf(n, 0, d)]

\* Answers from two forks, with a field changed, or without the difficulty.
AnswersAt(n, i) ==
    LET forks == {ChainOf(n, b, NoDifficulty)[i] : b \in 0 .. 1}
    IN  {HeaderToJson(h) : h \in forks} \cup {BlockToJson(h) : h \in forks}
          \cup {[HeaderToJson(h) EXCEPT !.body = 2] : h \in forks}
Walked == \E n \in {0, 1} : \E a1 \in AnswersAt(n, 1), a2 \in AnswersAt(n, 2), a3 \in AnswersAt(n, 3) :
            in' = [kind |-> "walk", start |-> n, answers |-> <<a1, a2, a3>>]
-----------------------------------------------------------------------------
\* Envelopes, and their bytes with a symbol changed, some missing or one more.
Envelopes ==
    [version: 1 .. 2, decision_id: {<<>>, <<1>>, <<1, 2>>}, schema: {<<>>, <<3>>},
     metrics: {<<>>, <<[name |-> <<1>>, value |-> <<2, 1>>]>>,
               <<[name |-> <<1>>, value |-> <<>>], [name |-> <<>>, value |-> <<2>>]>>},
     content_hash: {Absence, << <<5, 6>> >>}, cid: {Absence, << <<>> >>, << <<4>> >>}]
GoodEnvelopes == {e \in Envelopes : e.version = 1 /\ Len(e.decision_id) = 1}
Damaged(bytes) ==
    {[bytes EXCEPT ![i] = v] : i \in 1 .. Len(bytes), v \in 0 .. 3}
        \cup {SubSeq(bytes, 1, n) : n \in 0 .. Len(bytes)} \cup {Append(bytes, 1)}

Envelope == \E e \in Envelopes : in' = [kind |-> "envelope", env |-> e]
EnvelopeBytes == \E e \in GoodEnvelopes : \E d \in Damaged(RustEncode(e)) :
                    in' = [kind |-> "bytes", data |-> d]
SdkTx == \E key \in 1 .. 2, to \in {<<>>, <<3>>}, nonce, value, gas, price \in 0 .. 1,
            data \in {<<>>, <<7>>, <<7, 8>>} :
            in' = [kind |-> "tx", key |-> key, to |-> to, nonce |-> nonce, value |-> value,
                   gas |-> gas, price |-> price, data |-> data]

\* Chains of logs, read with numbers beyond the head and with tags.
LogChains == UNION {[1 .. n -> {<<>>, << <<>>, <<"x">> >>, << <<"x", "y">> >>}] : n \in 1 .. 3}
Ids ==
    {None, Some([kind |-> "other"])}
        \cup {Some([kind |-> "number", number |-> n]) : n \in 0 .. 3}
        \cup {Some([kind |-> "tag", tag |-> t]) : t \in HeadTags \cup {"earliest"}}
        \cup {Some([kind |-> "text", text |-> HexOf(p, d)]) :
                 p \in {<<>>, <<"0X">>, <<"0x", "0x">>},
                 d \in {<<>>, <<1>>, <<0, 1, 1>>, <<1, 0, 0, 0, 0>>, <<NotHex>>}}
Logs == \E c \in LogChains, from, to \in Ids, addrs \in {{}, {"x"}} :
            in' = [kind |-> "logs", chain |-> c,
                   filter |-> [from |-> from, to |-> to, addrs |-> addrs]]
Gas == \E g \in {None} \cup {Some(a) : a \in Corner} : in' = [kind |-> "gas", gas |-> g]
Call == \E m \in ReadMethods \cup WriteMethods \cup SocketMethods \cup {"eth_other"},
           o \in {"Ok", "InvalidParams", "Internal", "BlockNotFound", "TransactionNotFound"} :
            in' = [kind |-> "call", method |-> m, outcome |-> o]
Body == \/ \E k \in {"text", "json"} : in' = [kind |-> "body", body |-> [kind |-> k]]
        \/ \E m \in {"eth_call", "eth_sendRawTransaction", "eth_subscribe", "eth_other"},
              o \in {"Ok", "InvalidParams"}, id \in {"null", "7"} :
              in' = [kind |-> "body",
                     body |-> [kind |-> "request", method |-> m, outcome |-> o, id |-> id]]
Token == \E p \in {"", " ", "file"}, f \in {None, Some(""), Some(" "), Some("t1")},
            e \in {"", " ", "t2"}, u \in {"/livez", "/"},
            b \in {None, Some("t1"), Some("t2"), Some("other")} :
            in' = [kind |-> "token", path |-> p, file |-> f, env |-> e, url |-> u, bearer |-> b]
Times == \E o \in UNION {[1 .. n -> 0 .. 4] : n \in 0 .. 3} :
            in' = [kind |-> "times", observed |-> o]
-----------------------------------------------------------------------------
Envs ==
    [role: [word: {"master", "producer", "slave", "follower", "other"}, padded: BOOLEAN],
     chain: {1, 7}, interval: {2000}, rpc: {"rpc"}, p2p: {"", "p2p"}, bootstrap: {"", "peer"},
     allowlist: {"peers"}, archive: {FALSE}, read: {"", "read"},
     keyFile: {Missing, File("key9")}, genesisFile: {Missing, File("key8"), File("key9")},
     shared: {Missing, File("key8")}]
Boot == \E e \in Envs, cut \in 0 .. 8, t \in BOOLEAN :
            in' = [kind |-> "boot", env |-> e, cut |-> cut, torn |-> t]
Urls(name) == {Url(n, s, b) : n \in {"", name}, s, b \in BOOLEAN}
Resolve == \E f \in Urls("flag"), p \in BOOLEAN, u \in Urls("public"), e \in Urls("env") :
            in' = [kind |-> "resolve", flag |-> f, public |-> p, url |-> u, env |-> e]
Tomls == {Restrict(t, {d \in DOMAIN t : t[d] # NoFile}) :
            t \in [{<<>>, <<"p">>, <<"p", "sub">>} ->
                     {NoFile} \cup [rpc : {NoUrl, Url("toml", TRUE, FALSE)}, key : {Missing} \cup {File(Path(b, <<"k">>)) : b \in BOOLEAN}]]}
Given == {Missing} \cup {File(Path(b, <<"g">>)) : b \in BOOLEAN}
Develop == \E t \in Tomls, key, dir, env \in Given, cwd \in {<<"p">>, <<"p", "sub">>} :
            in' = [kind |-> "develop", tomls |-> t, args |-> [key |-> key, dataDir |-> dir],
                   env |-> env, cwd |-> cwd]

Pkg == <<"pkg">>
At(dir, stem, ext) == [dir |-> dir, stem |-> stem, ext |-> ext]
Here == <<>>
Manifests(name, sources) ==
    {Manifest(n, w, s) : n \in {"", name}, w \in {{}, {"c3"}}, s \in {{}} \cup {{r} : r \in sources}}
\* A file or none, for each of some paths; NoFile is none.
FileSystems ==
    {Restrict(fs, {p \in DOMAIN fs : fs[p] # NoFile}) :
        fs \in {(At(Pkg, "a", "yaml") :> ya) @@ (At(Pkg, "b", "yml") :> yb)
                    @@ (At(Pkg, "a", "wat") :> ra) @@ (At(Pkg, "b", "wasm") :> rb)
                    @@ (At(Pkg \o <<"sub">>, "a", "wat") :> rs) :
                  ya \in {NoFile} \cup Manifests("A", {At(Here, "a", "wat"), At(Here, "b", "wasm"),
                             At(Here, "a", "yaml"), At(<<"sub">>, "a", "wat")}),
                  yb \in {NoFile} \cup {Manifest("B", {}, {At(Here, s, e)}) :
                             s \in {"a", "b"}, e \in {"wasm", "yaml"}},
                  ra \in {NoFile, "c1", Broken}, rb \in {NoFile, "c2"}, rs \in {NoFile, "c1"}}}
Directory == \E fs \in FileSystems : in' = [kind |-> "files", fs |-> fs]
-----------------------------------------------------------------------------
\* The mempool of module TxPool, empty while another input is taken up.
Mempool == in' = [kind |-> "pool"]
PoolStep == Is("pool") /\ Next /\ UNCHANGED in
-----------------------------------------------------------------------------
InputInit == in = No /\ Init

TakeInput ==
    /\ in = No
    /\ UNCHANGED vars
    /\ \/ Shift \/ Pair \/ Power \/ HexText \/ Quantity \/ Roots \/ Proof \/ Shown \/ State
       \/ Header \/ Seal \/ Bodies \/ LightChain \/ Walked
       \/ Envelope \/ EnvelopeBytes \/ SdkTx
       \/ Logs \/ Gas \/ Call \/ Body \/ Token \/ Times
       \/ Boot \/ Resolve \/ Develop \/ Directory \/ Mempool
PutBack == in # No /\ in' = No /\ pool' = EmptyPool /\ admitted' = {}

InputNext ==
    \/ TakeInput
    \/ StateStep /\ UNCHANGED vars
    \/ PoolStep
    \/ PutBack
InputSpec == InputInit /\ [][InputNext]_<<in, vars>>
-----------------------------------------------------------------------------
\* U256 computes with the numbers its limbs stand for (uint.rs): sums and
\* differences through every carry, products, quotients and powers that are None
\* exactly when they do not fit or divide by zero, bits that add up, and shifts
\* by any distance, limb boundaries included.
Arithmetic ==
    /\ Is("pair") => /\ SumsExact(in.a, in.b) /\ ProductExact(in.a, in.b)
                     /\ QuotientExact(in.a, in.b) /\ BitsExact(in.a, in.b)
    /\ Is("shift") => ShiftsExact(in.a, in.n)
    /\ Is("power") => PowerExact(in.a, in.n)

\* Values survive their forms (uint.rs, hash.rs, address.rs, bytes.rs, and the
\* quantities of the RPC interface): a number comes back from its bytes and its
\* text, hashes are ordered as their numbers, addresses survive widening and
\* CREATE keeps its preimages apart, and parsers of one text agree where more
\* than one accepts it, in every client.
Conversions ==
    /\ Is("pair") => /\ TextRoundTrip(in.a) /\ HashOrderIsNumeric(in.a, in.b)
                     /\ AddressesKept(in.a, in.b)
    /\ Is("text") => ParsersAgree(in.text)
    /\ Is("quantity") => QuantitiesReadBack(in.n, in.text)

\* A root commits to contents and to nothing else (trie.rs, state.rs): two lists
\* of pairs have one root exactly when they are one map, what prove returns
\* verify accepts with the value of the map, verify accepts no wrong value
\* whatever nodes it is shown, and the state root does not depend on the calls
\* that led to the state.
Commitments ==
    /\ Is("roots") => RootCanonical(in.p, in.q)
    /\ Is("proof") => ProveVerifies(in.p, in.key)
    /\ Is("shown") => ProofsSound(in.p, in.key, in.q, in.other)
    /\ Is("state") => RootIsContents(in.db)

\* What validate_header and Block::validate accept was sealed by enough
\* different validators as it stands and has one body, and what seal_header
\* makes is accepted (poa.rs, block.rs); the light client follows every chain
\* that a full node accepts, and never stitches two forks together.
HeadersChecked ==
    /\ Is("header") => AcceptedIsAuthorized(in.config, in.header, in.parent)
    /\ Is("seal") => SealedValidates(in.config, in.header, in.miner, in.secret, in.parent)
    /\ Is("bodies") => BodyIsBound(in.block, in.other)
    /\ Is("light") => LightFollowsFull(OneKey, in.chain)
    /\ Is("walk") => LightChainIsLinked(in.start, in.answers)

\* The Python SDK and the node share one format (codec.py, quant.rs, tx.rs): they
\* write the same envelope, on any bytes that the node decodes the SDK decodes
\* the same fields, and a transaction that the SDK signs is accepted by the node
\* as the one asked for.
SdkAgrees ==
    /\ Is("envelope") => EnvelopesAgree(in.env)
    /\ Is("bytes") => SdkReadsWhatNodeReads(in.data)
    /\ Is("tx") => SdkTransactionAccepted(in.key, in.to, in.nonce, in.value, in.gas,
                                          in.price, in.data)


=============================================================================
