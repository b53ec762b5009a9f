SPECIFICATION Spec
CONSTANTS
    None = None
    r1 = r1
    r2 = r2
    Requests <- MCRequests
    Users <- MCUsers
    Founders <- MCFounders
    Roles <- MCRoles
    MfaEnforced = TRUE
    MaxTokens = 3
    MaxChanges = 3
SYMMETRY MCSymmetry
INVARIANTS
    TypeOK
    OwnerRemains
    OneValidTokenPerFamily
    DeactivationEndsSessions
    ActiveUsersAccepted
    EnrolmentIsPossible
    LoggedOutForACause
CHECK_DEADLOCK FALSE
