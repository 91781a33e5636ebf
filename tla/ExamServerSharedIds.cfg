SPECIFICATION Spec
CONSTANTS
    alice = alice
    visitor = visitor
    practice = practice
    certification = certification
    sharedIds = sharedIds
    Users = {alice}
    Visitors = {}
    Exams = {sharedIds}
    Catalogue <- MCSharedCatalogue
    OptionChoices <- MCOptionChoices
    AcceptChoices <- MCAcceptChoices
    Answers = {a1, a2}
    NoAnswer = NoAnswer
    NoCursor = NoCursor
    NoQuestion = NoQuestion
    MaxSessions = 1
    MaxCursors = 2
INVARIANT
    EveryQuestionSeen
CHECK_DEADLOCK FALSE
