SPECIFICATION Spec
CONSTANTS
    MaxDeliveries = 2
    MaxCrashes = 1
    MaxRetryCount = 2
    Owners <- MCOwners
    Senders = {r1, r2, dead}
    Dead = dead
    Replies = {t1}
    None = None
    Scopes = {"OLD_BOOKING_REFERENCE", "NEW_TRANSACTION"}
CHECK_DEADLOCK FALSE
PROPERTY LiveLeaseNotStolen
