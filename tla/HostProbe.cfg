\* What a NetBIOS answer says, how long a probe outlives a cancellation, and which label the
\* host gets, on every network of MCHostProbe.
SPECIFICATION Spec
CONSTANTS
    Quarter = 4
    LowBytes = 16
    HeaderSize = 1
    FirstLabel = 2
    MaxExpanded = 7
    StatSize = 1
    Datagram <- Answering
    Network <- Networks
INVARIANTS DrainsInTime NameFromWholeAnswer
PROPERTIES LabelsSurvive
