\* Two producers, a queue of three slots, nine pushes: every order of pushes,
\* installs and removals of the callback, deliveries and exceptions.
CONSTANTS
    Producers = {p1, p2}
    MAX_QUEUE_SIZE = 3
    MaxPush = 9
    NoOne = NoOne
SPECIFICATION Spec
SYMMETRY ProducerSymmetry
INVARIANTS
    TypeOK
    LeavesInOrder
    BacklogAccount
    BoundedLag
PROPERTY ImplementsDropOldest
