SPECIFICATION Spec
CONSTANTS
    t1 = t1
    t2 = t2
    t3 = t3
    a0 = a0
    x0 = x0
    a1 = a1
    b0 = b0
    alice = alice
    bob = bob
    m1 = m1
    None = None
    NoMessage = NoMessage
    NoCommitment = NoCommitment
    Txs <- MCTxs
    Evm <- MCEvm
    Blobs <- MCBlobs
    Senders = {alice, bob}
    Sender <- MCSender
    Nonce <- MCNonce
    Decodable = {a0, x0, a1, b0}
    Executable = {a0, x0, a1, b0}
    Messages = {m1}
    MessageOf <- MCMessageOf
    HeaderCap = 3
    Commitments <- MCCommitments
    OtherProvers = FALSE
    MaxRestarts = 0
PROPERTY FailedTxEvicted
CHECK_DEADLOCK FALSE
