\* Enough users for a trusted row and for a challenger that takes over.
SPECIFICATION IpSpec
CONSTANTS
    Users = {u1, u2, u3, u4, u5}
    IPs = {home}
    States = {LA, OG}
    MIN_CONFIDENCE = 3
    CHALLENGER_MARGIN = 3
    NoMapping = NoMapping
    NoState = NoState
INVARIANTS
    IpTypeOK
    OneVotePerUser
    TrustIsEarned
    NoChallengerAhead
PROPERTIES
    TrustIsKept
SYMMETRY MCSymmetry
