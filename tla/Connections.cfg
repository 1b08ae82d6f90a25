SPECIFICATION Spec
CONSTANTS
    Peer = {c1, c2}
    NoPeer = NoPeer
    Profile <- AllKinds
    PoolSize = 1
INVARIANTS RepliesMatch FramingAgrees
PROPERTY PeersAnswered
CHECK_DEADLOCK FALSE
