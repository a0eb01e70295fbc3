------------------------------- MODULE Light --------------------------------
(***************************************************************************)
(* The light client (tools/ivory-light) and the header objects that the    *)
(* RPC serves it (crates/ivory-rpc/src/handler.rs).  A JSON object is a    *)
(* function from the fields present; quantities and the difficulty go      *)
(* through their hex text, hashes stand for theirs (FixedBytes shows that  *)
(* the text of a hash reads back).                                         *)
(***************************************************************************)
EXTENDS FixedBytes, Seals

\* Mutant: zero left without a digit.
EncodeQtyTrimmed(n) ==
    LET digits == Nibbles(LimbBytesBe(n))
    IN  HexOf(<<"0x">>, SelectSeq(digits, LAMBDA d : n # 0))

\* encode_qty: the shortest hex text, 0x0 for zero
EncodeQty(n) ==
    LET digits == Nibbles(LimbBytesBe(n))
        first == FirstNonZero(digits)
    IN  HexOf(<<"0x">>, IF first = 0 THEN <<0>> ELSE SubSeq(digits, first, Len(digits)))

NumberOf(digits) == FoldLeft(LAMBDA acc, d : acc * DigitBase + d, 0, digits)

\* u64::from_str_radix(_, 16): leading zeros are fine, overflow is not; the sign
\* that it would take is left out
FromStrRadix(digits) ==
    IF digits = <<>> \/ \E i \in 1 .. Len(digits) : digits[i] \notin 0 .. DigitBase - 1
    THEN None
    ELSE IF NumberOf(digits) >= Base THEN None ELSE Some(NumberOf(digits))

\* parse_qty of the light client and of ivory-dev, and the number of a block id
ParseQty(text) == FromStrRadix(Stripped(text))

\* trim_start_matches(p): every leading p
TrimStart(prefix, p) ==
    LET other == SelectInSeq(prefix, LAMBDA q : q # p)
    IN  IF other = 0 THEN <<>> ELSE SubSeq(prefix, other, Len(prefix))

\* hex_u64 of deploy.rs: an empty text is zero
HexU64(text) ==
    LET s == Chars(TrimStart(TrimStart(text.prefix, "0x"), "0X"), text.digits)
    IN  IF s = <<>> THEN Some(0) ELSE FromStrRadix(s)

Fields == {"parentHash", "miner", "body", "extraData"}

\* header_to_json; gas limit, gas used and the three roots are one field
HeaderToJson(h) ==
    [hash |-> h, number |-> EncodeQty(h.number), timestamp |-> EncodeQty(h.timestamp),
     parentHash |-> h.parent, miner |-> h.miner, body |-> h.body,
     difficulty |-> U256ToHex(h.difficulty), extraData |-> h.extra]

\* block_to_json has no difficulty
BlockToJson(h) ==
    [f \in DOMAIN HeaderToJson(h) \ {"difficulty"} |-> HeaderToJson(h)[f]]

\* Mutant: the field dropped on the way instead of read.
HeaderWithoutDifficulty(json) ==
    IF ~(Fields \cup {"number", "timestamp"} \subseteq DOMAIN json) THEN None
    ELSE {[number |-> n, timestamp |-> t, parent |-> json.parentHash, miner |-> json.miner,
           body |-> json.body, difficulty |-> Zero, extra |-> json.extraData] :
             n \in ParseQty(json.number), t \in ParseQty(json.timestamp)}

HeaderFromRpc(json) ==
    IF ~(Fields \cup {"number", "timestamp"} \subseteq DOMAIN json) THEN None
    ELSE LET difficulty == IF "difficulty" \in DOMAIN json THEN U256FromHex(json.difficulty)
                           ELSE Some(Zero)
         IN  {[number |-> n, timestamp |-> t, parent |-> json.parentHash,
               miner |-> json.miner, body |-> json.body, difficulty |-> d,
               extra |-> json.extraData] :
                 n \in ParseQty(json.number), t \in ParseQty(json.timestamp), d \in difficulty}

VerifyRpcHash(header, json) == "hash" \in DOMAIN json /\ json.hash = header

\* u64::saturating_add(1)
Successor(n) == IF n + 1 < Base THEN n + 1 ELSE Base - 1

\* Mutant: heights compared and the hash link not.
LinkedByHeight(prev, next) ==
    next.number = Successor(prev.number) /\ ~IsEmptyExtra(next.extra)

VerifyHeaderLink(prev, next) ==
    /\ next.parent = prev
    /\ next.number = Successor(prev.number)
    /\ ~IsEmptyExtra(next.extra)

\* The loop of `ivory-light follow': answers is what the node returned for
\* the heights from start on.
FollowStep(start, answers, i) ==
    LET n == start + i - 1
        header == HeaderFromRpc(answers[i])
        prev == HeaderFromRpc(answers[i - 1])
    IN  \E h \in header :
            /\ VerifyRpcHash(h, answers[i])
            /\ n = 0 => ~IsEmptyExtra(h.extra)
            /\ IF i = 1 THEN h.number = start
               ELSE \E p \in prev : VerifyHeaderLink(p, h)

Follow(start, answers) == \A i \in 1 .. Len(answers) : FollowStep(start, answers, i)
-----------------------------------------------------------------------------
\* Every parser of quantities reads back what encode_qty writes; what the light
\* client's parse_qty accepts the deploy command's hex_u64 reads as the same
\* number, and it accepts more than that only without digits (as zero) or with
\* a repeated prefix.
QuantitiesReadBack(n, text) ==
    /\ ParseQty(EncodeQty(n)) = Some(n)
    /\ HexU64(EncodeQty(n)) = Some(n)
    /\ ParseQty(text) # None => HexU64(text) = ParseQty(text)
    /\ HexU64(text) # ParseQty(text) => text.digits = <<>> \/ Len(text.prefix) > 1

\* Full and light nodes follow the same chain: when each header of a chain is
\* a valid child of the one before (poa.rs validate_header, store.rs
\* insert_block), `ivory-light follow' accepts what ivory_getHeaderByNumber
\* answers, for any difficulty.  The object of eth_getBlockByNumber does only
\* for headers of difficulty zero, since it leaves the field out.
LightFollowsFull(config, chain) ==
    (\A i \in 1 .. Len(chain) :
        /\ ValidateHeader(config, chain[i], IF i = 1 THEN {} ELSE {chain[i - 1]})
        /\ i > 1 => chain[i].parent = chain[i - 1] /\ chain[i].number = chain[i - 1].number + 1)
    => /\ Follow(chain[1].number, [i \in 1 .. Len(chain) |-> HeaderToJson(chain[i])])
       /\ Follow(chain[1].number, [i \in 1 .. Len(chain) |-> BlockToJson(chain[i])])
            <=> \A i \in 1 .. Len(chain) : chain[i].difficulty = Zero

\* What the light client accepts is one chain: each header is the parent that
\* the next one names, so answers taken from two forks are never stitched
\* together, also when a reorg happens between two requests of the walk.
LightChainIsLinked(start, answers) ==
    Follow(start, answers) =>
        \A i \in 2 .. Len(answers) :
            /\ answers[i].parentHash = answers[i - 1].hash
            /\ HeaderFromRpc(answers[i]) = Some(answers[i].hash)
=============================================================================
