\* Two of three commands, of two versions of the code, a DBA and migrations.
CONSTANTS
    ProfileOrder <- TwoProfiles
    Tables = {"t", "u", "log"}
    AuditTables = {"log"}
    Whitelists <- Mistaken
    Runs = {r1, r2}
    DefaultProfile = "p"
    AUDIT_TABLE = "log"
    AppRole = "app"
    MaxChanges = 2
SYMMETRY Symmetry
SPECIFICATION MCSpec
INVARIANTS
    RolloutTypeOK
    AppliedProfilesInSync
    ReportIsDrift
    SmokeTellsTruth
PROPERTIES
    RunsKeepToTheirProfile
