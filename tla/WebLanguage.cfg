SPECIFICATION OneTabSpec
CONSTANTS
    None = None
    ann = ann
    Users = {ann}
    InitAccount <- MCInitAccount
    Languages = {"en", "uk"}
    Default = "en"
    MaxTokens = 1
    MaxTrail = 1
INVARIANT ProfileLanguageApplied
