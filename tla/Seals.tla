------------------------------- MODULE Seals --------------------------------
(***************************************************************************)
(* Proof of authority: the sealing and checking of headers                 *)
(* (crates/ivory-consensus/src/poa.rs and seal.rs) and the checks of a     *)
(* block that need no chain (crates/ivory-core/src/block.rs).              *)
(*                                                                         *)
(* keccak256 is taken to be injective: the hash of a header is the header, *)
(* a list root is the list.  An Ed25519 signature is its key and its       *)
(* message, and verifies for no other pair.  An address is the key it is   *)
(* derived from; a genesis file may still name an address and a key that   *)
(* do not belong together.                                                 *)
(***************************************************************************)
EXTENDS Integers, FiniteSets, SequencesExt

CONSTANTS Key, NoHash

\* extra_data: the whole 64-byte seals in it, and whether a rest is left over
NoExtra == [seals |-> <<>>, ragged |-> FALSE]
IsEmptyExtra(extra) == extra = NoExtra

Sign(key, message) == [by |-> key, over |-> message]
Verifies(message, signature, key) == signature = Sign(key, message)

SealHash(header) == [header EXCEPT !.extra = NoExtra]

\* encode_signatures, of at least one seal
EncodeSignatures(seals) == [seals |-> seals, ragged |-> FALSE]

\* decode_seals: a Result as the set of what it holds
DecodeSeals(extra) ==
    IF extra.ragged \/ extra.seals = <<>> THEN {} ELSE {extra.seals}

VerifySeal(extra, required) ==
    required # 0 /\ \E seals \in DecodeSeals(extra) : Len(seals) >= required

\* PoAConsensus::new
ValidConfig(config) == config.validators # <<>> /\ config.required # 0

IsValidator(config, addr) == \E v \in ToSet(config.validators) : v.address = addr

\* The validator whose key a seal verifies with, the first in the list.
MatchOf(config, message, seal) ==
    SelectInSeq(config.validators, LAMBDA v : Verifies(message, seal, v.key))

\* Mutant: as many seals as required, not as many sealers.
SealsCounted(config, header) ==
    /\ VerifySeal(header.extra, config.required)
    /\ \A seal \in ToSet(header.extra.seals) : MatchOf(config, SealHash(header), seal) # 0

VerifyCryptoSeals(config, header) ==
    LET matches == {MatchOf(config, SealHash(header), seal) : seal \in ToSet(header.extra.seals)}
        unique == {config.validators[i].address : i \in matches}
    IN  /\ VerifySeal(header.extra, config.required)
        /\ 0 \notin matches
        /\ Cardinality(unique) >= config.required

\* parent is {} for genesis
ValidateHeader(config, header, parent) ==
    /\ IsValidator(config, header.miner)
    /\ \A p \in parent : header.timestamp >= p.timestamp
    /\ VerifyCryptoSeals(config, header)

\* Mutant: signed before the miner is written.
SealedEarly(config, header, miner, secret) ==
    IF ~IsValidator(config, miner) \/ secret # miner THEN {}
    ELSE {[header EXCEPT !.miner = miner,
                         !.extra = EncodeSignatures(<<Sign(secret, SealHash(header))>>)]}

\* seal_header, with the secret key `secret'; the address of a key is the key
SealHeader(config, header, miner, secret) ==
    LET unsealed == [header EXCEPT !.miner = miner, !.extra = NoExtra]
    IN  IF ~IsValidator(config, miner) \/ secret # miner THEN {}
        ELSE {[unsealed EXCEPT !.extra =
                  EncodeSignatures(<<Sign(secret, SealHash(unsealed))>>)]}

\* Mutant: the transactions compared by number only.
ValidateByCount(block) ==
    /\ block.header.gasUsed <= block.header.gasLimit
    /\ Len(block.transactions) = Len(block.receipts)
    /\ block.header.receiptsRoot = block.receipts

\* Block::validate
ValidateBlock(block) ==
    /\ block.header.gasUsed <= block.header.gasLimit
    /\ Len(block.transactions) = Len(block.receipts)
    /\ block.header.transactionsRoot = block.transactions
    /\ block.header.receiptsRoot = block.receipts
-----------------------------------------------------------------------------
Signers(config, header) ==
    {v.address : v \in {v \in ToSet(config.validators) :
        \E seal \in ToSet(header.extra.seals) : Verifies(SealHash(header), seal, v.key)}}

\* A header that validate_header accepts was signed, as it stands, by at least
\* the required number of different validators, and by nobody else: repeating
\* a seal, changing a field after sealing or padding extra_data never helps.
AcceptedIsAuthorized(config, header, parent) ==
    ValidateHeader(config, header, parent) =>
        /\ Cardinality(Signers(config, header)) >= config.required
        /\ \A seal \in ToSet(header.extra.seals) :
              seal.over = SealHash(header)
              /\ \E v \in ToSet(config.validators) : v.key = seal.by
        /\ ~header.extra.ragged

\* What seal_header seals, validate_header accepts, whatever the header held
\* before: when one seal is required, the validator's address belongs to its
\* key and time does not run backwards.  With more seals required no block the
\* producer seals is ever valid, since seal_header writes exactly one.
SealedValidates(config, header, miner, secret, parent) ==
    \A sealed \in SealHeader(config, header, miner, secret) :
        ValidateHeader(config, sealed, parent)
            <=> /\ config.required = 1
                /\ \A p \in parent : header.timestamp >= p.timestamp
                /\ \E v \in ToSet(config.validators) : v.key = secret

\* A header fixes its body: of all the transactions and receipts that can come
\* with a header (block.rs validate), at most one pair is valid, so a body
\* emptied by a pruning peer or taken from another block is refused.
BodyIsBound(block, other) ==
    ValidateBlock(block) /\ ValidateBlock(other) /\ block.header = other.header
        => block = other
=============================================================================
