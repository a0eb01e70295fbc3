SPECIFICATION Spec
CONSTANTS
    Tx <- MCTx
    Sender <- MCSender
    From <- MCFrom
    Nonce <- MCNonce
    Verified <- MCVerified
    MaxPending = 2
    MaxPerSender = 2
    NoTx = NoTx
    Task = {k1, k2}
INVARIANTS
    PendingOvershoot
PROPERTIES
    AtomicPool
