SPECIFICATION ModuleSpec
CONSTANTS
    t1 = t1
    t2 = t2
    a0 = a0
    a1 = a1
    b0 = b0
    alice = alice
    bob = bob
    m1 = m1
    None = None
    NoMessage = NoMessage
    NoCommitment = NoCommitment
    Txs <- MCTxs
    Evm <- MCEvm
    Blobs <- MCBlobs
    Senders = {alice, bob}
    Sender <- MCSender
    Nonce <- MCNonce
    Decodable = {a0, a1, b0}
    Executable = {a0, a1}
    Messages = {m1}
    MessageOf <- MCMessageOf
    HeaderCap = 2
    Commitments <- MCCommitments
INVARIANTS TypeOK HeadersChained OneTxPerBlock NoDuplicates
CHECK_DEADLOCK FALSE
