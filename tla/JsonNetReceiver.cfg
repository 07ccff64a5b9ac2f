SPECIFICATION FairSpec
CONSTANTS
    Clients = {c1, c2}
    Nobody = Nobody
    MaxRequests = 2
INVARIANTS TypeOK SessionsOwned WritesOwned StaysAlive
PROPERTIES OnlyClosedReleased EveryConnectionAccepted EverySessionReleased
CHECK_DEADLOCK FALSE
