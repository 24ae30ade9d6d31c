\* Three threads share one allocator; the logical counter overflows after two keys.
CONSTANTS
    Nodes = {n1}
    Threads = {t1, t2, t3}
    NodeOf <- OneNode
    MaxPhysicalMs = 3
    MaxLogical = 1
    Readings <- MCReadings
SPECIFICATION Spec
SYMMETRY ThreadSymmetry
INVARIANTS TypeOK SeqsDistinct RealTimeOrder
PROPERTIES ClockMovesForward
