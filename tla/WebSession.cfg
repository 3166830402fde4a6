SPECIFICATION FairSpec
CONSTANTS
    None = None
    ann = ann
    Users = {ann}
    InitAccount <- MCInitAccount
    Languages = {"uk"}
    Default = "uk"
    MaxTokens = 2
    MaxTrail = 1
INVARIANTS
    TypeOK
    AdmittedPagesServed
    ShownUserCalls
    MenuIsAdmitted
PROPERTIES
    RedirectsSettle
