SPECIFICATION Spec
CONSTANTS
    Block <- Small
    Genesis <- MCGenesis
    Parent <- SmallParent
    Number <- SmallNumber
    StateRoot <- SmallStateRoot
    TxsOf <- SmallTxsOf
    ValidHeader <- MCValidHeader
    ValidBody <- MCValidBody
    State <- MCState
    GenesisState <- MCGenesisState
    ExecError = ExecError
    Execute <- MCExecute
    RootOf <- MCRootOf
    Task = {k1, k2}
SYMMETRY TaskSymmetry
INVARIANTS
    ReadersFindBlocks
    IndexIsAChain
    SettledWhenAlone
