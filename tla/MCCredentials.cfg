SPECIFICATION Spec
CONSTANTS
    Listeners = {"lan_https", "loopback_http"}
    Request = {r1, r2}
    Origin = {o1, o2}
    Instance = {i1, i2}
    NoOrigin = NoOrigin
    NoInstance = NoInstance
    TicketTTL = 1
    PairingTTL = 2
    SessionTTL = 2
    MaxPairings = 2
    MaxArrivals = 5
    MaxClock = 2
    MaxTickets = 2
    MaxSessions = 2
    MaxPaired = 3
INVARIANTS
    TypeOK TicketSingleUse PairingSingleUse RevokedNeverRedeemed PairingCap
    SessionProvenance
PROPERTIES RefusalIsFinal NoEarlyDrop TicketsAreOneUse PairingsAreOneUse
SYMMETRY Symmetry
