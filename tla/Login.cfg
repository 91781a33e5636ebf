SPECIFICATION FairSpec
CONSTANTS
    left = left
    right = right
    other = other
    home = home
    library = library
    alice = alice
    Browsers = {home, library}
    Tabs = {left, right, other}
    BrowserOf <- MCBrowserOf
    Accounts = {alice}
    Relative = {"github", "oidc"}
    Blacklist <- MCBlacklist
    RejectVisitor = FALSE
    TicketBuffer = 1
    None = None
    Keep = Keep
    Budgets <- MCBudgets
INVARIANTS
    TypeOK
    LoginsAreOwn
    OverAttemptsNeverLogIn
    VisitorsArePaced
    ShownAsLoggedIn
PROPERTIES
    EveryRequestAnswered
CHECK_DEADLOCK FALSE
