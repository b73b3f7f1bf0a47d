\* Two punches, one flush at a time, no restart, and an API that answers as
\* the phone's tests assume: does every item leave the queue, and the right
\* way?
CONSTANTS
    Flusher = {f1}
    Screen = screen
    Nobody = nobody
    MaxRetries = 2
    Field = {"entry"}
    Refusal = {"conflict"}
    NumPunches = 2
    MaxRevivals = 0
    MaxRestarts = 0
SPECIFICATION Spec
PROPERTIES
    PendingSettles
CHECK_DEADLOCK FALSE
