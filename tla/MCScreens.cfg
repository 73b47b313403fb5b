SPECIFICATION MCSpec
CONSTANTS
    i1 = i1
    i2 = i2
    Screens = {"documents", "vehicles", "reminders", "members", "invitations", "overrides", "verification", "review"}
    Id = {i1, i2}
    Load = {l1}
    Write = {w1, w2}
    MaxClicks = 2
    MaxFailures = 1
    None = None
INVARIANT ScreenFollowsServer
PROPERTY ProcessingSettles
CHECK_DEADLOCK FALSE
