SPECIFICATION Spec
CONSTANTS
    c1 = c1
    c2 = c2
    web = web
    app = app
    IDs = {c1}
    Projects = {web}
    ProjectUnknown = ProjectUnknown
    ProjectsOf <- OneProject
    EventsNameProject = FALSE
    MaxOps = 2
    MaxAttempts = 2
INVARIANTS
    AsideIsOfThisListing
