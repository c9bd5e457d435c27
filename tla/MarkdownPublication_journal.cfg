SPECIFICATION Spec
CONSTANTS
    p1 = p1
    p2 = p2
    note = note
    cards = cards
    round = round
    Boot = Boot
    None = None
    Main = Main
    Runs = Runs
    Publishers = {p1, p2}
    FilesOf <- NoteCardsRound
    MaxRevision = 3
    MaxIds = 2
SYMMETRY Interchangeable
PROPERTIES
    ImplementsContract
    CommittedIsCurrent
CHECK_DEADLOCK FALSE
