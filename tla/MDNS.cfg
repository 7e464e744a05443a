\* Sessions that open, fail, expire, refresh and are cancelled at any moment: two
\* service types, two instances of one and a foreign one of the other.
SPECIFICATION FairSpec
CONSTANTS
    http = http
    ssh = ssh
    web = web
    box = box
    far = far
    None = None
    Service <- Services
    Instance <- Instances
    ServiceOf <- Types
    InSubnet <- Near
    EntriesCap = 1
    OutCap = 1
INVARIANTS SessionIsJoined
PROPERTIES WorkerSpec KeptFresh
