SPECIFICATION MCSpec
CONSTANTS
    i1 = i1
    i2 = i2
    c1 = c1
    c2 = c2
    Nothing = Nothing
    Interviews <- TwoInterviews
    Calls <- TwoCalls
    Modes = {"managed_identity", "key"}
    KeyLife = 3
    TokenLifetime = 2
    Margin = 1
    Delay = 1
    MaxLife = 3
    MaxClock = 3
    Providers = {"azure"}
    MaxSilentRestarts = 1
    MaxSessions = 2
    Utterances = 1
    Turns = 2
    Keystrokes = 1
    MaxRequests = 1
    Narrators = {"azure"}
    Questions = 0
INVARIANT RecordingNeverLies
CHECK_DEADLOCK FALSE
