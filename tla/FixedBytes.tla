----------------------------- MODULE FixedBytes -----------------------------
(***************************************************************************)
(* Fixed-size byte arrays (hash.rs), addresses (address.rs), byte strings  *)
(* (bytes.rs) and the byte and text forms of U256 (uint.rs), scaled down:  *)
(* a byte is two hex digits of one bit each, so a limb is W \div 2 bytes.  *)
(* A hex text is the prefixes it begins with and its digits, a digit       *)
(* outside 0..1 standing for any character that is not hex.                *)
(***************************************************************************)
EXTENDS Uint

DigitBase == 2
ByteBase == DigitBase * DigitBase
Byte == 0 .. ByteBase - 1
LimbBytes == W \div 2

\* H256, H160 and the u64 of from_u64, in bytes of this scale (32, 20, 8).
H256Len == 4 * LimbBytes
H160Len == (5 * LimbBytes) \div 2

Hash(n) == [1 .. n -> Byte]
ZeroHash(n) == [i \in 1 .. n |-> 0]

FromSlice(n, s) == IF Len(s) = n THEN Some(s) ELSE None

-----------------------------------------------------------------------------
\* Byte order of U256: limb 0 is the least significant.

LimbBytesBe(x) ==
    [k \in 1 .. LimbBytes |-> ShrLimb(x, 2 * (LimbBytes - k)) % ByteBase]
LimbOfBe(s) == FoldLeft(LAMBDA acc, byte : acc * ByteBase + byte, 0, s)

ToBeBytes(a) == FlattenSeq([i \in 1 .. 4 |-> LimbBytesBe(a[4 - i])])
ToLeBytes(a) == FlattenSeq([i \in 1 .. 4 |-> Reverse(LimbBytesBe(a[i - 1]))])

Word(s, i) == SubSeq(s, (i - 1) * LimbBytes + 1, i * LimbBytes)

\* Mutant: the limbs read in the order the words come.
FromBeBytesInOrder(s) == [i \in 0 .. 3 |-> LimbOfBe(Word(s, i + 1))]
FromBeBytes(s) == [i \in 0 .. 3 |-> LimbOfBe(Word(s, 4 - i))]
FromLeBytes(s) == [i \in 0 .. 3 |-> LimbOfBe(Reverse(Word(s, i + 1)))]

-----------------------------------------------------------------------------
\* Hex text.

NotHex == 7
HexOf(prefix, digits) == [prefix |-> prefix, digits |-> digits]

\* The characters of a text whose prefixes are not stripped: x is no digit.
Chars(prefix, digits) == FlattenSeq([i \in 1 .. Len(prefix) |-> <<0, NotHex>>]) \o digits

\* strip_prefix("0x"), else strip_prefix("0X"): one prefix of either case
Stripped(text) ==
    IF text.prefix = <<>> THEN text.digits ELSE Chars(Tail(text.prefix), text.digits)

Nibbles(s) ==
    FlattenSeq([i \in 1 .. Len(s) |-> <<s[i] \div DigitBase, s[i] % DigitBase>>])

\* hex::decode: pairs of digits, or an error
HexDecode(digits) ==
    IF Len(digits) % 2 = 1 \/ \E i \in 1 .. Len(digits) : digits[i] \notin 0 .. DigitBase - 1
    THEN None
    ELSE Some([i \in 1 .. Len(digits) \div 2 |->
                  digits[2 * i - 1] * DigitBase + digits[2 * i]])

HashFromHex(n, text) == AndThen(HexDecode(Stripped(text)), LAMBDA s : FromSlice(n, s))
HashToHex(h) == HexOf(<<"0x">>, Nibbles(h))

Zeros(n) == [i \in 1 .. n |-> 0]

Padded(digits) == Zeros(2 * H256Len - Len(digits)) \o digits

U256FromHex(text) ==
    LET s == Stripped(text)
    IN  IF s = <<>> THEN Some(Zero)
        ELSE IF Len(s) > 2 * H256Len THEN None
        ELSE AndThen(HexDecode(Padded(s)), LAMBDA bytes : Some(FromBeBytes(bytes)))

FirstNonZero(s) == SelectInSeq(s, LAMBDA d : d # 0)

\* to_hex and LowerHex: no leading zero digit, a single 0 for zero.
U256ToHex(a) ==
    LET digits == Nibbles(ToBeBytes(a))
        first == FirstNonZero(digits)
    IN  HexOf(<<"0x">>, IF first = 0 THEN <<0>> ELSE SubSeq(digits, first, Len(digits)))

\* Bytes strips one "0x" only: the X of "0X" is then no hex digit.
Stripped0x(text) ==
    IF text.prefix # <<>> /\ Head(text.prefix) = "0x" THEN Stripped(text)
    ELSE Chars(text.prefix, text.digits)

\* Mutant: a last odd digit dropped.
BytesFromPairs(text) ==
    HexDecode(SubSeq(Stripped0x(text), 1, 2 * (Len(Stripped0x(text)) \div 2)))
BytesFromHex(text) == HexDecode(Stripped0x(text))

-----------------------------------------------------------------------------
\* Order, bit counts, bitwise operations and conversions of a hash.

\* Mutant: compared from the last byte.
HashLessFromEnd(a, b) ==
    \E i \in 1 .. Len(a) : a[i] < b[i] /\ \A j \in i + 1 .. Len(a) : a[j] = b[j]
HashLess(a, b) ==
    \E i \in 1 .. Len(a) : a[i] < b[i] /\ \A j \in 1 .. i - 1 : a[j] = b[j]

ByteZeros(x) == IF x = 0 THEN 2 ELSE IF x < 2 THEN 1 ELSE 0
ByteTrailing(x) == IF x = 0 THEN 2 ELSE IF x % 2 = 0 THEN 1 ELSE 0

\* The bytes up to and including the first that is not zero.
UpToNonZero(h) ==
    LET first == FirstNonZero(h) IN IF first = 0 THEN h ELSE SubSeq(h, 1, first)

HashLeadingZeros(h) ==
    FoldLeft(LAMBDA n, x : n + ByteZeros(x), 0, UpToNonZero(h))
HashTrailingZeros(h) ==
    FoldLeft(LAMBDA n, x : n + ByteTrailing(x), 0, UpToNonZero(Reverse(h)))

HashXor(a, b) == [i \in 1 .. Len(a) |-> OfOnes(OneSided(a[i], b[i]))]

HashFromU64(n, v) ==
    LET be == LimbBytesBe(v)
        copied == IF n < LimbBytes THEN n ELSE LimbBytes
    IN  Zeros(n - copied) \o SubSeq(be, LimbBytes - copied + 1, LimbBytes)

FromH160(h) == Zeros(H256Len - H160Len) \o h

\* Mutant: the high bytes kept, as for a left-aligned address.
ToH160High(h) == SubSeq(h, 1, H160Len)
ToH160(h) == SubSeq(h, H256Len - H160Len + 1, H256Len)

-----------------------------------------------------------------------------
\* Contract addresses: what create and create2 hash.  keccak256 is taken to
\* be injective, so that two addresses differ when their preimages do.

CreatePreimage(sender, nonce) == sender \o LimbBytesBe(nonce)
Create2Preimage(sender, salt, codeHash) == <<ByteBase - 1>> \o sender \o salt \o codeHash

-----------------------------------------------------------------------------
\* A number survives its bytes (uint.rs to_be_bytes, to_le_bytes) and its
\* text (to_hex, then from_hex of the number and of H256), and the text of a
\* number is the shortest that reads back.
TextRoundTrip(a) ==
    /\ FromBeBytes(ToBeBytes(a)) = a
    /\ FromLeBytes(ToLeBytes(a)) = a
    /\ U256FromHex(U256ToHex(a)) = Some(a)
    /\ HashFromHex(H256Len, HashToHex(ToBeBytes(a))) = Some(ToBeBytes(a))
    /\ HashFromHex(H256Len, HexOf(<<>>, U256ToHex(a).digits))
           = IF Len(U256ToHex(a).digits) = 2 * H256Len THEN Some(ToBeBytes(a)) ELSE None

\* The order of two hashes, which the fork choice breaks ties by (store.rs
\* is_canonical_update compares H256), is the order of the numbers they
\* are, and the bit counts and xor of both types agree.
HashOrderIsNumeric(a, b) ==
    LET ha == ToBeBytes(a)
        hb == ToBeBytes(b)
    IN  /\ HashLess(ha, hb) <=> Val(a) < Val(b)
        /\ HashLeadingZeros(ha) = LeadingZeros(a)
        /\ HashTrailingZeros(ha) = TrailingZeros(a)
        /\ HashXor(ha, hb) = ToBeBytes(Xor(a, b))

\* The three hex parsers agree: a text that H256::from_hex accepts names the
\* same number to U256::from_hex, and to Bytes unless its prefix is 0X, and
\* U256 accepts exactly the hex texts of at most 64 digits with at most one
\* prefix.
ParsersAgree(text) ==
    LET h == HashFromHex(H256Len, text)
        hex == /\ Len(text.prefix) <= 1
               /\ \A i \in 1 .. Len(text.digits) : text.digits[i] \in 0 .. DigitBase - 1
    IN  /\ h # None => U256FromHex(text) = {FromBeBytes(x) : x \in h}
        /\ h # None /\ text.prefix # <<"0X">> => BytesFromHex(text) = h
        /\ U256FromHex(text) # None <=> hex /\ Len(text.digits) <= 2 * H256Len
        /\ \A x \in BytesFromHex(text) : HashFromHex(Len(x), text) = Some(x)

\* An address survives the word it is stored in (H256::from_h160 then
\* to_h160), a u64 keeps its value in a hash of any length that holds it, and
\* the preimages of create and create2 name their deployer: no other
\* (sender, nonce) gives the same one, and the two kinds never meet.
AddressesKept(a, b) ==
    LET sa == ToH160(ToBeBytes(a))
        sb == ToH160(ToBeBytes(b))
    IN  /\ ToH160(FromH160(sa)) = sa
        /\ FromH160(sa) = ToBeBytes(a) <=> Val(a) < ByteBase ^ H160Len
        /\ \A n \in {1, H160Len, H256Len} : HashFromU64(n, a[0]) \in Hash(n)
        /\ FromBeBytes(HashFromU64(H256Len, a[0])) = OfVal(a[0])
        /\ CreatePreimage(sa, a[0]) = CreatePreimage(sb, b[0]) => sa = sb /\ a[0] = b[0]
        /\ CreatePreimage(sa, a[0]) # Create2Preimage(sb, ToBeBytes(a), ToBeBytes(b))
=============================================================================
