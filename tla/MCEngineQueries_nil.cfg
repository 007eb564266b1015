SPECIFICATION Spec
CONSTANTS
    pod = pod
    c1 = c1
    default = default
    k8s = k8s
    IDs = {pod, c1}
    Sandboxes = {pod}
    PodOf <- OnePod
    Spaces = {default, k8s}
    Default = default
    SpaceOf <- TwoSpaces
    RawOf <- SameID
    Projects = {web}
    NoProject = NoProject
    Clients = {"cri"}
    MaxOps = 1
INVARIANT AnswerOrError
