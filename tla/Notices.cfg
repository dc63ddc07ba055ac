SPECIFICATION McSpec
CONSTANTS
    w = w
    t = t
    r1 = r1
    r2 = r2
    a = a
    b = b
    t1 = t1
    t2 = t2
    o1 = o1
    o2 = o2
    c1 = c1
    Processes <- McProcesses
    WebServer = w
    Runs <- McRuns
    MaxAttempts = 2
    MaxRefusals = 2
    MaxStops = 1
    Taps <- McTaps
    MaxAsks = 2
    MaxRetries = 1
    MaxFaults = 1
    MaxHalts = 1
    Turns <- McTurns
    OwnerMsgs <- McOwnerMsgs
    CustMsgs <- McCustMsgs
    MaxQuestions = 2
    MaxFailures = 1
    MaxSteals = 1
    MaxRestarts = 1
    NoMsg = NoMsg
INVARIANTS
    TypesOK
    PromptLicence
    ToldOnce
    ClaimsHaveHolders
    OneDm
    OneDecision
    DecisionStands
    FollowupOnce
    NeverStranded
    AnswerInHand
PROPERTIES
    DecidedIsSettled
    DecisionReported
CHECK_DEADLOCK FALSE
