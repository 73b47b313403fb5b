SPECIFICATION FairSpec
CONSTANTS
    Type = {inspection}
    Kinds = {"compliance"}
    Request = {q1, q2}
    None = None
    MaxReminders = 2
    MaxCalls = 3
    MaxOdometer = 1
    Past = 1
    Horizon = 1
    DueDays <- Dates
    DueKms = {}
    Intervals = {}
    SoonDays = 0
    SoonKm = 0
    Renotify = 2
    Ops = {"create", "update", "complete", "remove", "confirm", "verify", "drive"}
    Faults = {"db", "crash", "api"}
PROPERTIES Throttled ManualIsTheUsers OverdueIsAnnounced
CHECK_DEADLOCK FALSE
