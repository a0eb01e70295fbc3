SPECIFICATION NodeSpec
CONSTANTS
    Block <- MCBlock
    Genesis <- MCGenesis
    Parent <- MCParent
    Number <- MCNumber
    StateRoot <- MCStateRoot
    TxsOf <- MCTxsOf
    ValidHeader <- MCValidHeader
    ValidBody <- MCValidBody
    State <- MCState
    GenesisState <- MCGenesisState
    ExecError = ExecError
    Execute <- MCExecute
    RootOf <- MCRootOf
    Tx <- MCTx
    Sender <- MCSender
    From <- MCFrom
    Nonce <- MCNonce
    Verified = {}
    MaxPending = 3
    MaxPerSender = 2
    Window = {}
    Configs <- KeepNoneOrArchive
INVARIANTS
    RecoveredState
    RestartIsExact
    ConfirmedHeadKept
CHECK_DEADLOCK FALSE
