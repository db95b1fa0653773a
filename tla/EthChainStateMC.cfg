SPECIFICATION Spec
CONSTANTS
    a0 = a0
    a1 = a1
    bad = bad
    junk = junk
    alice = alice
    bob = bob
    t1 = t1
    None = None
    NoMessage = NoMessage
    Txs = {t1}
    Evm = {a0, a1, bad, junk}
    Blobs <- MCBlobs
    Senders = {alice, bob}
    Sender <- MCSender
    Nonce <- MCNonce
    Decodable = {a0, a1, bad}
    Executable = {a0, a1}
    Messages = {}
    MessageOf <- MCMessageOf
    HeaderCap = 2
    Roots <- MCRoots
    MaxBatch = 3
    MaxBlock = 2
INVARIANTS SpeculativeIsLoop SettledIsLoop NonceIsLoop ProvedAgainstPostState
CHECK_DEADLOCK FALSE
