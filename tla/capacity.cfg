\* Two callers, three slots; requests of up to two slots.
CONSTANTS
    Callers = {c1, c2}
    DownstreamCapacity = 3
    MaxRequest = 2
    MaxVersion = 3
SPECIFICATION Spec
SYMMETRY CallerSymmetry
INVARIANTS TypeOK InvariantHolds SnapshotIsLive
PROPERTY ImplementsAtomicCounter
