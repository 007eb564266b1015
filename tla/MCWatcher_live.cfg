\* Liveness: one container, two attempts, fair goroutines.
SPECIFICATION FairSpec
CONSTANTS
    c1 = c1
    c2 = c2
    web = web
    app = app
    IDs = {c1}
    Projects = {web}
    ProjectUnknown = ProjectUnknown
    ProjectsOf <- OneProject
    EventsNameProject = FALSE
    MaxOps = 1
    MaxAttempts = 2
PROPERTIES
    CatchesUp
    EventuallyReady
