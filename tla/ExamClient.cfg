SPECIFICATION ClientSpec
CONSTANTS
    left = left
    right = right
    guest = guest
    alice = alice
    visitor = visitor
    practice = practice
    certification = certification
    every = every
    admin = admin
    mailA = mailA
    Users = {alice, visitor}
    Visitors = {visitor}
    Exams = {practice, certification, every}
    Catalogue <- MCCatalogue
    OptionChoices <- MCOptionChoices
    AcceptChoices <- MCAcceptChoices
    Answers <- MCAnswers
    NoAnswer = NoAnswer
    NoCursor = NoCursor
    NoQuestion = NoQuestion
    MaxSessions = 1
    MaxCursors = 4
    NoPassingScore = NoPassingScore
    SysadminEmail = admin
    NoEmail = NoEmail
    Bank <- MCBank
    PassingScore <- MCPassingScore
    EmailOf <- MCEmailOf
    Tabs = {left, right, guest}
    UserOf <- MCUserOf
    UserAnswers <- MCUserAnswers
    None = None
    Cold = Cold
    Budgets <- MCBudgets
SYMMETRY TabSymmetry
INVARIANTS
    ClientTypeOK
    LabelIsTrue
    DeadCursorsCanBeReplaced
    SavedAnswersKept
    AssessmentIsSound
    MailedAsConsented
CHECK_DEADLOCK FALSE
