\* One-shot and continuous scans of three workers, any of which fails, quits or
\* obeys; a channel of one update, a cached neighbour, a slow consumer.
SPECIFICATION FairSpec
CONSTANTS
    Worker = {arp, mdns, active}
    Active = active
    UpdatesCap = 1
    Seeds = 1
    Hosts = 1
INVARIANTS NothingLeftBehind SuccessIsComplete BlameIsDeserved SeedsFirst
PROPERTIES Returns
