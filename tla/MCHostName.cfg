SPECIFICATION Spec
CONSTANTS
    v1 = v1
    v2 = v2
    v3 = v3
    home = home
    pod = pod
    bare = bare
    Visitors = {v1, v2, v3}
    M0 = M0
    m1 = m1
    m2 = m2
    Threads = {M0, m1, m2}
    Spaces = {home, pod, bare}
    Home = home
    TargetOf <- Targets
    Own = Own
    Nameless = {bare}
    NoThread = NoThread
INVARIANTS
    TypeOK
    NoForeignThread
    NameOfTarget
