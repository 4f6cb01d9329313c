\* Sessions and preferences of one user, directly and through the gateway.
CONSTANTS
    Request = {1, 2, 3}
    Client = {g1}
    Prefs = {p1, p2}
    Names = {n1}
    Environments <- Loads
    Gone = Gone
    Reused = Reused
    Other = Other
    None = None
SPECIFICATION FairSpec
INVARIANTS
    TokenUsedOnce
    LogoutEndsSessions
    LoggedOutIsRefused
PROPERTIES
    PreferencesServed
    GatewayAnswers
