SPECIFICATION InputSpec
CONSTANTS
    Tx <- MCTx
    Sender <- MCSender
    From <- MCFrom
    Nonce <- MCNonce
    Verified <- MCVerified
    MaxPending = 3
    MaxPerSender = 2
    W = 4
    NibbleBase = 2
    HashLen = 2
    k1 = k1
    k2 = k2
    k3 = k3
    Key = {k1, k2, k3}
    NoHash = NoHash
    ScanMax = 2
    DefaultGas = 5
    Bounds <- MCBounds
    Addr = {a1, a2}
    Slot = {s1, s2}
    SlotValue = {1, 2}
    Owned = {o1}
    Code = {c1}
    Nothing = Nothing
    Broken = Broken
    NoFile = NoFile
INVARIANTS
    PerSenderExact
    StrictNonces
    WithinLimits
    Arithmetic
    Conversions
    Commitments
    HeadersChecked
    SdkAgrees
    
    
