SPECIFICATION FairSpec
CONSTANTS
    None = None
    r1 = r1
    r2 = r2
    Requests <- MCRequests
    Species <- MCSpecies
    Lots <- MCLots
    NoteOf <- MCNoteOf
    CorrectionsOf <- MCNoCorrections
    Boards <- MCOneBoard
    FirstPublications <- MCFirst
    Cent = 100
    CloseThreshold = 5
    DayLength = 2
    Ahead = 1
    MaxPublications = 2
    MaxDisturbances = 1
PROPERTIES
    EventuallyConfirmed
CHECK_DEADLOCK FALSE
