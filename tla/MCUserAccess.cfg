CONSTANTS
    ann = ann
    bob = bob
    planner = planner
    admin = admin
    NoUser = NoUser
    NoRole = NoRole
    NoSession = NoSession
    User <- MCUser
    Role <- MCRole
    Admin <- admin
    Rank <- MCRank
    InitialRoles <- MCInitialRoles
    Client = {c1, c2}
    Session = {t1, t2}
    MaxChanges <- MCMaxChanges
SPECIFICATION Spec
SYMMETRY Symmetry
INVARIANTS
    AdministratorRemains
    AcceptedSessionsJustified
    AuditExplainsAccess
PROPERTIES
    ChangesByAdministrators
    ChangesReplaceWhatWasSeen
    ChangeSignsOut
CHECK_DEADLOCK FALSE
