\* The menu, one connection, one connect it started.
CONSTANTS
    Menu = Menu
    c1 = c1
    g1 = g1
    Clients = {c1}
    Spawned = {g1}
    Reports = {"connected", "disconnected"}
    Texts = {"text"}
SPECIFICATION FairSpec
INVARIANTS
    TypeOK
    ShownIsCurrent
    OnlyStatusLasts
PROPERTIES
    AnswersAreCurrent
    MenuCatchesUp
    HandlersEnd
CHECK_DEADLOCK TRUE
