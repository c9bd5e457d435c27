SPECIFICATION EitherSpec
CONSTANTS
    a = a
    b = b
    book = book
    other = other
    page = page
    next = next
    Dead = Dead
    None = None
    Clients = {a, b}
    Books = {book, other}
    Pages = {page, next}
    Limit <- OneOfEach
    MaxCache = 4
    MaxReservations = 3
    JobSlots = {1, 2}
    SlotOf <- BookSlot
    p1 = p1
    p2 = p2
    c1 = c1
    c2 = c2
    Procs = {p1, p2}
    Callers = {c1, c2}
    ProcOf <- Process
    MaxDeaths = 1
    Kinds = {"note", "plain", "running"}
    EditedPlaces = {"source", "backup", "artifact", "publication"}
    MaxEdits = 2
    MaxCrashes = 3
SYMMETRY Same
INVARIANTS
    UsedIsKept
    OnePublication
    SealedIsWhole
    EditedSourceStands
PROPERTIES
    RefusedForAReason
    NothingIsLost
CHECK_DEADLOCK FALSE
