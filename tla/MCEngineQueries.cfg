SPECIFICATION Spec
CONSTANTS
    pod = pod
    c1 = c1
    default = default
    k8s = k8s
    IDs = {pod, c1}
    Sandboxes = {pod}
    PodOf <- OnePod
    Spaces = {default, k8s}
    Default = default
    SpaceOf <- TwoSpaces
    RawOf <- SameID
    Projects = {web}
    NoProject = NoProject
    Clients = {"moby", "containerd", "cri"}
    MaxOps = 4
INVARIANTS
    TypeOK
    Complete
    Truthful
    ContainerOrError
    DistinctIDs
