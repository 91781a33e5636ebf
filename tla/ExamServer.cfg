SPECIFICATION Spec
CONSTANTS
    alice = alice
    visitor = visitor
    practice = practice
    certification = certification
    sharedIds = sharedIds
    Users = {alice, visitor}
    Visitors = {visitor}
    Exams = {practice, certification}
    Catalogue <- MCCatalogue
    OptionChoices <- MCOptionChoices
    AcceptChoices <- MCAcceptChoices
    Answers = {a1, a2}
    NoAnswer = NoAnswer
    NoCursor = NoCursor
    NoQuestion = NoQuestion
    MaxSessions = 2
    MaxCursors = 2
INVARIANTS
    TypeOK
    IndexInLockStep
    NoQuestionSkipped
    PositionsAreStable
    RetiredCursorsStayDead
    EndedSessionsAccounted
    EveryQuestionSeen
PROPERTY
    ImplementsLifecycle
CHECK_DEADLOCK FALSE
