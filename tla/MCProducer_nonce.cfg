SPECIFICATION Spec
CONSTANTS
    Tx <- MCTx
    Address <- MCAddress
    From <- MCFrom
    To <- MCTo
    Value <- MCValue
    Gas <- MCGas
    GasPrice <- MCGasPrice
    Nonce <- MCNonce
    DataLen <- MCDataLen
    NoAddress = 0
    CodeOf <- MCCodeOf
    Create <- MCCreate
    TxGasCost = 2
    DataGasCost = 1
    MaxGasPerBlock = 9
    DefaultFuel = 5
    MaxU256 = 20
    Sender <- MCSender
    Verified <- MCVerified
    MaxPending = 4
    MaxPerSender = 2
    MaxTxs = 3
    BlockGasLimit = 7
    Alloc <- MCAlloc
INVARIANT
    AccountNonceAccepted
