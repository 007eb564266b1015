SPECIFICATION Spec
CONSTANTS
    c1 = c1
    c2 = c2
    web = web
    app = app
    IDs = {c1}
    Projects = {web, app}
    ProjectUnknown = ProjectUnknown
    ProjectsOf <- AnyProject
    EventsNameProject = FALSE
    MaxOps = 3
    MaxAttempts = 1
INVARIANTS
    SyncedExact
