SPECIFICATION Spec
CONSTANTS
    None = None
    r1 = r1
    r2 = r2
    Requests <- MCRequests
    Species <- MCSpecies
    Lots <- MCLots
    NoteOf <- MCNoteOf
    CorrectionsOf <- MCCorrectionsOf
    Boards <- MCBoards
    FirstPublications <- MCFirst
    Cent = 100
    CloseThreshold = 5
    DayLength = 2
    Ahead = 1
    MaxPublications = 3
    MaxDisturbances = 2
SYMMETRY MCSymmetry
INVARIANTS
    TypeOK
    NothingLost
    FrozenAsWritten
    ScoresAreTrue
    PassedOnThePhoneIsNoBreach
    TargetsCountFromTheirStart
PROPERTIES
    NeverStoredAgain
CHECK_DEADLOCK FALSE
