\* A client that installs its callback once: is every queued frame delivered?
CONSTANTS
    Producers = {p1}
    MAX_QUEUE_SIZE = 2
    MaxPush = 3
    NoOne = NoOne
SPECIFICATION FairClientSpec
PROPERTY EveryFrameLeaves
