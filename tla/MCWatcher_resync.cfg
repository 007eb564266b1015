\* One container, two attempts: failures, and listings that overlap.
SPECIFICATION Spec
CONSTANTS
    c1 = c1
    c2 = c2
    web = web
    app = app
    IDs = {c1}
    Projects = {web}
    ProjectUnknown = ProjectUnknown
    ProjectsOf <- OneProject
    EventsNameProject = TRUE
    MaxOps = 3
    MaxAttempts = 2
INVARIANTS
    SyncInv
    AsideOnlyWhileListing
    SyncedExact
    AnnouncedAgain
PROPERTIES
    MakeBeforeBreak
