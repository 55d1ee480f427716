CONSTANTS
    Emails = {"alice@example.com", "bob@example.com"}
    SigningKeys = {"kid"}
    Scopes = {"read"}
    RedirectUris = {"app:callback"}
    NoEmail = NoEmail
    KeyIds = {"carol"}
    Never = Never
    Locals = {"alice", "bob"}
    Remotes = {"carol"}
    Urls = {"carol", "mirror"}
    IdOf <- StatedId
    HostOf <- Host
    ClientIds = {"c1", "c2"}
    Jwts <- AllJwts
    Founder = "alice"
    FounderJwt <- FoundersJwt
    FounderClient = "c1"
    Deliveries <- AllDeliveries
    Served <- CarolsKey
    Handles = {"carol", "mirror", "nobody"}
    Links <- WebFinger
    KEK = KEK
    Workers = {w1, w2}
    MaxRequests = 3
    MaxProfiles = 2
    Edited = {"carol"}
    Long = {2}
    None = None
SYMMETRY Symmetry
SPECIFICATION Spec
INVARIANTS TypeOK RegistrationAtomic ProfileAnnounced
PROPERTIES IdentityIsFinal
CHECK_DEADLOCK FALSE
