SPECIFICATION FairSpec
CONSTANTS
    a = a  b = b  secret = secret
    Blank = Blank  Unset = Unset  Garbage = Garbage  User = User  None = None
    Processes = {a, b}
    Environments <- Variants
    Required = {secret}
    LastSetting = 2
    MaxFailures = 2
INVARIANTS ServesComplete SeededFtpUsable SettingsAreMine
PROPERTIES SeedsOnce ServesInTheEnd
