SPECIFICATION Spec
CONSTANTS
    alice = alice
    visitor = visitor
    practice = practice
    certification = certification
    sharedIds = sharedIds
    Users = {alice}
    Visitors = {}
    Exams = {certification}
    Catalogue <- MCCertificationOnly
    OptionChoices <- MCOptionChoices
    AcceptChoices <- MCAcceptChoices
    Answers = {a1, a2}
    NoAnswer = NoAnswer
    NoCursor = NoCursor
    NoQuestion = NoQuestion
    MaxSessions = 1
    MaxCursors = 2
PROPERTY
    FixedSequence
CHECK_DEADLOCK FALSE
