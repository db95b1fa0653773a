SPECIFICATION FairSpec
CONSTANTS
    t1 = t1
    t2 = t2
    t3 = t3
    a0 = a0
    x0 = x0
    a1 = a1
    b0 = b0
    alice = alice
    bob = bob
    m1 = m1
    None = None
    NoMessage = NoMessage
    NoCommitment = NoCommitment
    Txs <- SmallTxs
    Evm <- SmallEvm
    Blobs <- SmallBlobs
    Senders = {alice, bob}
    Sender <- SmallSender
    Nonce <- SmallNonce
    Decodable = {a0, a1, b0}
    Executable = {a0, a1, b0}
    Messages = {m1}
    MessageOf <- SmallMessageOf
    HeaderCap = 3
    Commitments <- MCCommitments
    Contracts <- MCContracts
    BridgeCn = bridge
    HyperlaneCn = hyperlane
    DefaultCn = hyperlane
    Deployments = {}
    HasBridgeBlob = {t1}
    OtherProvers = FALSE
    MaxRestarts = 1
PROPERTIES ComesUp PendingDrains ServedEventually IndexedEventually
CHECK_DEADLOCK FALSE
