SPECIFICATION FairSpec
CONSTANTS
    endSession = endSession
    getQuestion = getQuestion
    submit = submit
    Calls = {endSession, getQuestion, submit}
    Mailing = {endSession}
    NoCall = NoCall
PROPERTY
    DeliveryNeverBlocksDispatch
CHECK_DEADLOCK FALSE
