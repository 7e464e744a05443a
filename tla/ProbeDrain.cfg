\* How long a probe outlives a cancellation, on every platform.
SPECIFICATION Spec
CONSTANTS
    Quarter = 4
    LowBytes = 16
    HeaderSize = 1
    FirstLabel = 2
    MaxExpanded = 7
    StatSize = 1
    Datagram <- Answering
    Network <- Networks
INVARIANTS DrainsWithinASecond
