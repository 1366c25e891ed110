SPECIFICATION Spec
CONSTANTS
    User = {"ann", "bob"}
    Inserts = {"word", "newline", "broken", "pane"}
    MaxEdits = 2
    MailScenarios <- MCMailScenarios
    Author = {"ann", "bob"}
    Day = 2
    Week = 3
    LastMonth <- MCLastMonth
    Flags <- MCFlags
    Skew = 1
    MaxTime = 5
    MaxHistory = 3
INVARIANTS
    MentionShown
    UpdatesShown
    LeftOutWroteAll
    SessionsCover
PROPERTIES
    SessionsOnlyMerge
CHECK_DEADLOCK FALSE
