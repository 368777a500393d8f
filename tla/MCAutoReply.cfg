SPECIFICATION FairSpec
CONSTANTS
    Review = {r1}
    Hook = {h1, h2}
    Worker = {w1, w2}
    Request = {q1}
    Mode = {"auto", "manual"}
    EditStatus = {"pending", "skipped"}
    MaxAttempts = 2
    MaxHooks = 3
    MaxFaults = 2
INVARIANTS
    OnePoster
    DecidedIsNotPosted
PROPERTIES
    PendingAutoIsSettled
    EventIsRecorded
