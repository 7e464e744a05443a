\* Three packets through a capture of two and a channel of one: failures, an interface that
\* goes away and a cancellation at any moment, over every table of two rows.
SPECIFICATION FairSpec
CONSTANTS
    host = host
    guest = guest
    asking = asking
    Packet <- Packets
    Address <- Hosts
    Manuf <- Manufs
    DigitBits = 2
    BareDigits = 2
    AddressDigits = 4
    CaptureCap = 2
    OutCap = 1
    MaxPackets = 3
INVARIANTS EveryPacketReported VendorIsClosest
PROPERTIES WorkerSpec
