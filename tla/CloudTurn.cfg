SPECIFICATION MCSpec
CONSTANTS
    MaxDeliveries = 2
    MaxCrashes = 1
    MaxRetryCount = 1
    Owners <- MCOwners
    Senders = {r1, r2, dead}
    Dead = dead
    Replies = {t1}
    None = None
    Scopes = {"OLD_BOOKING_REFERENCE", "NEW_TRANSACTION"}
    Rows <- MCRows
    Texts <- MCTexts
    RepliesTo <- MCRepliesTo
    Nothing = Nothing
    Recoverer = Recoverer
    MaxMishaps = 1
    r1 = r1
    r2 = r2
    row1 = row1
    row2 = row2
    x = x
    y = y
SYMMETRY Swapped
INVARIANTS TypesOK SendLicence DeliveryLicence OneSendAtATime LaneFollowsDecision ReplySentMeansDelivered CopiesHaveCause DoneHasReply
PROPERTIES UncertainNeverResent KeepsPromise
CHECK_DEADLOCK FALSE
