\* Rights taken away, and users deleted, while tokens, logins and writes are about.
SPECIFICATION FairSpec
CONSTANTS
    ann = ann
    bob = bob
    c1 = c1
    c2 = c2
    r1 = r1
    r2 = r2
    None = None
    Users = {ann, bob}
    InitUsers <- MCNewUsers
    Browsers = {c1, c2}
    Records = {r1, r2}
    NTables = 2
    TableOf <- MCTableOf
    Roles = {"admin", "operator"}
    Languages = {"en"}
    Ops <- AllOps
INVARIANTS TypeOK AuthorsExist
PROPERTIES RevocationTakesHold StandingHistoryKept
\* Two admins can block or delete each other; once their tokens have expired nobody can log in.
CHECK_DEADLOCK FALSE
