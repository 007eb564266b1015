\* Two containers, one attempt: the listing against the events.
SPECIFICATION Spec
CONSTANTS
    c1 = c1
    c2 = c2
    web = web
    app = app
    IDs = {c1, c2}
    Projects = {web}
    ProjectUnknown = ProjectUnknown
    ProjectsOf <- OneProject
    EventsNameProject = FALSE
    MaxOps = 3
    MaxAttempts = 1
SYMMETRY Symmetry
INVARIANTS
    SyncInv
    TypeOK
    SyncedExact
    AnnouncedExact
    OnlyMissing
