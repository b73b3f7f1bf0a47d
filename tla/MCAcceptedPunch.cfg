\* The API as it is: the punch routes answer with `timeEntry`.
CONSTANTS
    Flusher = {f1}
    Screen = screen
    Nobody = nobody
    MaxRetries = 2
    Field = {"timeEntry"}
    Refusal = {}
    NumPunches = 1
    MaxRevivals = 0
    MaxRestarts = 0
SPECIFICATION Spec
PROPERTIES
    AcceptedIsSynced
CHECK_DEADLOCK FALSE
