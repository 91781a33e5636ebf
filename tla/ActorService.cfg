SPECIFICATION FairSpec
CONSTANTS
    endSession = endSession
    getQuestion = getQuestion
    submit = submit
    Calls = {endSession, getQuestion, submit}
    Mailing = {endSession}
    NoCall = NoCall
INVARIANT
    TypeOK
PROPERTIES
    DeliveredIsAnswered
    EveryCallReturns
    ShutdownStopsTheActor
    ImplementsOnceService
CHECK_DEADLOCK FALSE
