-------------------------------- MODULE Rpc ---------------------------------
(***************************************************************************)
(* The sequential part of the RPC server (crates/ivory-rpc/src): block     *)
(* ids, the log scan, the gas of a simulated call, dispatch with its       *)
(* counters, the bearer token and the histogram of /metrics.  A chain is   *)
(* the sequence of its canonical blocks from height 0 on, a block the logs *)
(* of each of its receipts, a log the address that emitted it.             *)
(***************************************************************************)
EXTENDS Light

CONSTANTS
    ScanMax,        \* 1000 blocks
    DefaultGas,     \* 10,000,000
    Bounds          \* PRODUCE_BOUNDS, an increasing sequence

ASSUME RpcAssumption ==
    /\ ScanMax \in Nat
    /\ DefaultGas \in Limb \ {0}
    /\ \A i \in 1 .. Len(Bounds) - 1 : Bounds[i] < Bounds[i + 1]

HeadTags == {"latest", "pending", "safe", "finalized"}
NumberId(n) == [number |-> n]
TagId(tag) == [tag |-> tag]

\* parse_block_id of a JSON number, a text or anything else
ParseBlockId(v) ==
    CASE v.kind = "number" -> Some(NumberId(v.number))
      [] v.kind = "tag" -> Some(TagId(v.tag))
      [] v.kind = "text" -> {NumberId(n) : n \in ParseQty(v.text)}
      [] OTHER -> None

HeadOf(chain) == Len(chain) - 1

\* block_by_tag: the height of the block, if there is one
BlockByTag(chain, id) ==
    LET height == IF "number" \in DOMAIN id THEN id.number
                  ELSE IF id.tag = "earliest" THEN 0 ELSE HeadOf(chain)
    IN  IF height \in 0 .. HeadOf(chain) THEN Some(height) ELSE None

\* from and to of eth_getLogs; v is None when the filter has none, and the bound
\* is None when it does not parse
BoundOf(chain, v, default) ==
    IF v = None THEN Some(default)
    ELSE {IF "number" \in DOMAIN id THEN id.number ELSE UnwrapOr(BlockByTag(chain, id), default) :
             id \in UNION {ParseBlockId(value) : value \in v}}

\* Mutant: the limit on the number of blocks.
LogRangeStrict(chain, filter) ==
    {r \in [from: BoundOf(chain, filter.from, 0), to: BoundOf(chain, filter.to, HeadOf(chain))] :
        r.to >= r.from /\ r.to - r.from < ScanMax}

\* the limit is on the difference of the heights
LogRange(chain, filter) ==
    {r \in [from: BoundOf(chain, filter.from, 0), to: BoundOf(chain, filter.to, HeadOf(chain))] :
        r.to >= r.from /\ r.to - r.from <= ScanMax}

LogsOfBlock(chain, n, addrs) ==
    LET receipts == chain[n + 1]
        logs(t) == [l \in 1 .. Len(receipts[t]) |->
                       [block |-> n, tx |-> t - 1, log |-> l - 1, address |-> receipts[t][l]]]
        all == FlattenSeq([t \in 1 .. Len(receipts) |-> logs(t)])
    IN  SelectSeq(all, LAMBDA log : addrs = {} \/ log.address \in addrs)

\* Mutant: the last block of the range left out.
LogsUpTo(chain, from, to, addrs) ==
    FlattenSeq([i \in 1 .. to - from |->
        IF from + i - 1 > HeadOf(chain) THEN <<>> ELSE LogsOfBlock(chain, from + i - 1, addrs)])

\* the scan of eth_get_logs; heights the store does not have are skipped
ScanLogs(chain, from, to, addrs) ==
    FlattenSeq([i \in 1 .. to - from + 1 |->
        IF from + i - 1 > HeadOf(chain) THEN <<>> ELSE LogsOfBlock(chain, from + i - 1, addrs)])

GetLogs(chain, filter) ==
    {ScanLogs(chain, r.from, r.to, filter.addrs) : r \in LogRange(chain, filter)}

\* Mutant: the low limb, whatever is above it.
GasLimitUnclamped(gas) ==
    IF gas = None \/ gas = Some(Zero) THEN DefaultGas ELSE (CHOOSE v \in gas : TRUE)[0]

\* gas_limit of a simulated call
GasLimit(gas) ==
    IF gas = None \/ gas = Some(Zero) THEN DefaultGas
    ELSE LET v == CHOOSE v \in gas : TRUE
         IN  IF Less([i \in 0 .. 3 |-> IF i = 0 THEN Base - 1 ELSE 0], v) THEN Base - 1
             ELSE v[0]
-----------------------------------------------------------------------------
\* Dispatch.  An outcome is what the method itself comes to.

WriteMethods == {"eth_sendRawTransaction"}
SocketMethods == {"eth_subscribe", "eth_unsubscribe"}
ReadMethods ==
    {"eth_chainId", "eth_blockNumber", "eth_getBalance", "eth_getCode", "eth_getStorageAt",
     "eth_getBlockByNumber", "eth_getBlockByHash", "eth_getTransactionByHash",
     "eth_getTransactionReceipt", "eth_getTransactionCount", "eth_call", "eth_estimateGas",
     "eth_getLogs", "eth_getProof", "ivory_nodeInfo", "ivory_listContracts",
     "ivory_getHeaderByNumber"}

\* READ_ONLY_METHODS of node.rs, the allowlist of rpc_read_addr
ReadOnlyMethods ==
    {"eth_chainId", "eth_blockNumber", "eth_getBalance", "eth_getCode", "eth_getStorageAt",
     "eth_getBlockByNumber", "eth_getBlockByHash", "eth_getTransactionByHash",
     "eth_getTransactionReceipt", "eth_getTransactionCount", "eth_call", "eth_estimateGas",
     "eth_getLogs", "eth_getProof", "ivory_nodeInfo", "ivory_listContracts",
     "ivory_getHeaderByNumber"}

ErrorCode(error) ==
    CASE error = "MethodNotFound" -> -32601
      [] error = "InvalidParams" -> -32602
      [] error \in {"Internal", "Server"} -> -32603
      [] error = "TransactionNotFound" -> -32000
      [] error = "BlockNotFound" -> -32001
      [] error = "AccountNotFound" -> -32002

\* what handle's match comes to; allow is None on the main bind
Handled(method, outcome) ==
    IF method \in SocketMethods THEN "Server"
    ELSE IF method \in ReadMethods \cup WriteMethods THEN outcome
    ELSE "MethodNotFound"

Reply(result) == IF result = "Ok" THEN [ok |-> TRUE] ELSE [ok |-> FALSE, code |-> ErrorCode(result)]

\* Mutant: a refused method answered without being counted.
HandleUncounted(allow, method, outcome) ==
    IF allow # None /\ ~(\E ms \in allow : method \in ms)
    THEN [reply |-> Reply("MethodNotFound"), requests |-> 1, errors |-> <<>>, ran |-> FALSE]
    ELSE [reply |-> Reply(Handled(method, outcome)), requests |-> 1,
          errors |-> IF Handled(method, outcome) = "Ok" THEN <<>>
                     ELSE <<ErrorCode(Handled(method, outcome))>>,
          ran |-> method \in ReadMethods \cup WriteMethods]

\* handle, then dispatch: the reply, the counters' steps and whether the
\* method ran
Handle(allow, method, outcome) ==
    IF allow # None /\ ~(\E ms \in allow : method \in ms)
    THEN [reply |-> Reply("MethodNotFound"), requests |-> 1, errors |-> <<-32601>>, ran |-> FALSE]
    ELSE [reply |-> Reply(Handled(method, outcome)), requests |-> 1,
          errors |-> IF Handled(method, outcome) = "Ok" THEN <<>>
                     ELSE <<ErrorCode(Handled(method, outcome))>>,
          ran |-> method \in ReadMethods \cup WriteMethods]

\* A body is no JSON ("text"), JSON that is no request ("json") or a request.
Unparsed(code) ==
    [id |-> "null", reply |-> [ok |-> FALSE, code |-> code], requests |-> 0, errors |-> <<>>]

\* dispatch
Answered(id, call) ==
    [id |-> id, reply |-> call.reply, requests |-> call.requests, errors |-> call.errors]

\* Mutant: an error that has lost the id of its request.
HttpErrorsUnnamed(allow, body) ==
    IF body.kind # "request" THEN Unparsed(IF body.kind = "text" THEN -32700 ELSE -32600)
    ELSE LET call == Handle(allow, body.method, body.outcome)
         IN  Answered(IF call.reply.ok THEN body.id ELSE "null", call)

HttpJsonRpc(allow, body) ==
    IF body.kind # "request" THEN Unparsed(IF body.kind = "text" THEN -32700 ELSE -32600)
    ELSE Answered(body.id, Handle(allow, body.method, body.outcome))

\* handle_ws_message: subscriptions are answered by the session, uncounted
WsMessage(allow, body) ==
    IF body.kind # "request" THEN Unparsed(-32700)
    ELSE IF body.method \in SocketMethods
    THEN [id |-> body.id, reply |-> Reply(body.outcome), requests |-> 0, errors |-> <<>>]
    ELSE Answered(body.id, Handle(allow, body.method, body.outcome))
-----------------------------------------------------------------------------
\* The bearer token.  "" is unset, " " blank text that trims to nothing.

Blank == {"", " "}
Trimmed(s) == IF s \in Blank THEN None ELSE Some(s)

\* Mutant: an environment that names a file is not looked at for a token.
FileTokenOnly(path, file, env) ==
    IF path \notin Blank THEN UNION {Trimmed(text) : text \in file} ELSE Trimmed(env)

\* read_token: the file's token if the file can be read and is not blank, else
\* the variable's; file is None when it cannot be read
ReadToken(path, file, env) ==
    LET ofFile == IF path \in Blank THEN None ELSE UNION {Trimmed(text) : text \in file}
    IN  IF ofFile # None THEN ofFile ELSE Trimmed(env)

Probes == {"/livez", "/readyz", "/metrics"}

\* auth_mw: the request goes through
Admits(token, path, bearer) == path \in Probes \/ token = None \/ bearer = token

-----------------------------------------------------------------------------
\* The histogram of block production times.

NewBuckets == [i \in 1 .. Len(Bounds) + 1 |-> 0]


\* observe_produce_seconds
Observe(buckets, seconds) ==
    LET i == SelectInSeq(Bounds, LAMBDA bound : seconds <= bound)
    IN  [buckets EXCEPT ![IF i = 0 THEN Len(Bounds) + 1 ELSE i] = @ + 1]

\* encode: the running sums, the last one for +Inf
Exposed(buckets) ==
    [i \in 1 .. Len(Bounds) + 1 |-> FoldLeft(LAMBDA acc, n : acc + n, 0, SubSeq(buckets, 1, i))]
-----------------------------------------------------------------------------
\* The height that a block id of a filter means, for one that means any.
Means(chain, v, default) ==
    {h \in 0 .. Base - 1 :
        IF v = None THEN h = default
        ELSE \E value \in v :
                CASE value.kind = "number" -> h = value.number
                  [] value.kind = "tag" -> h = IF value.tag = "earliest" THEN 0 ELSE HeadOf(chain)
                  [] value.kind = "text" -> /\ Len(value.text.prefix) <= 1
                                            /\ value.text.digits # <<>>
                                            /\ NotHex \notin ToSet(value.text.digits)
                                            /\ h = NumberOf(value.text.digits)
                  [] OTHER -> FALSE}

\* eth_getLogs answers exactly the ranges that mean something, are the right way
\* round and span at most ScanMax + 1 blocks (handler.rs bounds the difference
\* of the heights, so one block more than the 1000 of docs/rpc.md), and answers
\* with the logs of the canonical blocks from fromBlock to toBlock that match
\* the addresses, each once and in chain order, also when toBlock is above the
\* head; a scan cut in two pages gives the same logs.
LogsExact(chain, filter) ==
  LET from == Means(chain, filter.from, 0)
      to == Means(chain, filter.to, HeadOf(chain))
  IN
  /\ GetLogs(chain, filter) # None <=>
        \E f \in from, t \in to : f <= t /\ Cardinality(f .. t) <= ScanMax + 1
  /\ \A out \in GetLogs(chain, filter) :
        LET r == CHOOSE r \in [from: from, to: to] : TRUE
            before(x, y) ==
                \/ x.block < y.block
                \/ x.block = y.block /\ x.tx < y.tx
                \/ x.block = y.block /\ x.tx = y.tx /\ x.log < y.log
        IN  /\ \A n \in 0 .. HeadOf(chain) : \A t \in 1 .. Len(chain[n + 1]) :
                 \A l \in 1 .. Len(chain[n + 1][t]) :
                    LET log == [block |-> n, tx |-> t - 1, log |-> l - 1,
                                address |-> chain[n + 1][t][l]]
                    IN  log \in ToSet(out) <=> n \in r.from .. r.to
                            /\ (filter.addrs = {} \/ log.address \in filter.addrs)
            /\ \A i \in 1 .. Len(out) - 1 : before(out[i], out[i + 1])
            /\ \A mid \in r.from .. r.to - 1 :
                 out = ScanLogs(chain, r.from, mid, filter.addrs)
                          \o ScanLogs(chain, mid + 1, r.to, filter.addrs)

\* The gas of eth_call and eth_estimateGas (handler.rs gas_limit) is the gas
\* asked for, cut at u64::MAX and never zero: a caller never simulates with
\* less gas than it asked for because of the width.
GasLimitFits(gas) ==
    /\ GasLimit(gas) \in Limb \ {0}
    /\ \A v \in gas : v # Zero => GasLimit(gas) = IF Val(v) < Base THEN Val(v) ELSE Base - 1

\* What is counted is what the client saw: each call adds one request, and one
\* error exactly when the reply is an error, with the reply's code (handler.rs
\* handle); the read-only bind runs no method that the main bind does not
\* answer in the same way, and none that writes.
CountedAsAnswered(method, outcome) ==
    \A allow \in {None, Some(ReadOnlyMethods)} :
        LET call == Handle(allow, method, outcome)
            main == Handle(None, method, outcome)
        IN  /\ call.requests = 1
            /\ call.errors = IF call.reply.ok THEN <<>> ELSE <<call.reply.code>>
            /\ allow # None /\ call.ran => call = main /\ method \notin WriteMethods

\* A request is answered and counted alike over HTTP (server.rs http_jsonrpc) and
\* over a WebSocket (handle_ws_message) on either bind, but for subscriptions,
\* which HTTP refuses; a reply carries the id of its request, and only what is
\* no request at all is answered without one, with an error and no count.
TransportsAgree(body) ==
    \A allow \in {None, Some(ReadOnlyMethods)} :
        LET http == HttpJsonRpc(allow, body)
            ws == WsMessage(allow, body)
        IN  IF body.kind # "request"
            THEN \A r \in {http, ws} : ~r.reply.ok /\ r.id = "null" /\ r.requests = 0
            ELSE /\ http.id = body.id /\ ws.id = body.id
                 /\ IF body.method \in SocketMethods THEN ~http.reply.ok ELSE http = ws

\* A token that is configured anywhere is enforced: if the file or the variable
\* holds one, a request without it reaches nothing but the probes (server.rs
\* read_token, auth_mw).
TokenEnforced(tokenPath, file, env, path, bearer) ==
    LET token == ReadToken(tokenPath, file, env)
        configured ==
            \/ Trimmed(env) # None
            \/ tokenPath \notin Blank /\ \E text \in file : Trimmed(text) # None
    IN  configured /\ path \notin Probes /\ Admits(token, path, bearer)
            => bearer # None /\ bearer \in {Trimmed(env)} \cup {Trimmed(text) : text \in file}

\* A scrape of the histogram reads, for every bound, the number of blocks that
\* took at most that long, and for +Inf all of them (metrics.rs encode).
HistogramExact(observed) ==
    LET exposed == Exposed(FoldLeft(Observe, NewBuckets, observed))
    IN  /\ \A i \in 1 .. Len(Bounds) :
              exposed[i] = Cardinality({k \in 1 .. Len(observed) : observed[k] <= Bounds[i]})
        /\ exposed[Len(Bounds) + 1] = Len(observed)
=============================================================================
