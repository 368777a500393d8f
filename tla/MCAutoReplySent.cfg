SPECIFICATION Spec
CONSTANTS
    Review = {r1}
    Hook = {h1}
    Worker = {w1}
    Request = {}
    Mode = {"auto", "manual"}
    EditStatus = {"pending", "skipped"}
    MaxAttempts = 3
    MaxHooks = 1
    MaxFaults = 0
INVARIANT
    SentWasPosted
