\* Two admins who block each other.
SPECIFICATION Spec
CONSTANTS
    ann = ann
    bob = bob
    c1 = c1
    c2 = c2
    r1 = r1
    r2 = r2
    None = None
    Users = {ann, bob}
    InitUsers <- MCInitUsers
    Browsers = {c1, c2}
    Records = {r1}
    NTables = 1
    TableOf <- MCTableOf
    Roles = {"admin", "operator"}
    Languages = {"en"}
    Ops <- BlockOps
PROPERTIES LastAdminNotBlocked
\* Two admins can block each other; once their tokens have expired nobody can log in.
CHECK_DEADLOCK FALSE
