\* New locations, changes, deletions and subscriptions interleave.
SPECIFICATION FairSpec
CONSTANTS
    None = None
    s1 = s1
    s2 = s2
    ann = ann
    bob = bob
    home = home
    shop = shop
    barn = barn
    flat = flat
    Sessions = {s1, s2}
    Clients = {ann, bob}
    Locations = {home, shop, barn, flat}
    ClientOf <- MCClientOf
    Touched = {home, shop, barn}
    InitLocs <- MCInitLocs
    InitSubscribed = {home}
INVARIANTS
    TypeOK
    OneDefault
    LocationsKept
    DeadlocksMoveDefaults
PROPERTIES
    ImplementsBook
    RequestsEnd
\* When every location is gone no request is left.
CHECK_DEADLOCK FALSE
