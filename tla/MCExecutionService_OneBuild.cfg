SPECIFICATION Spec
CONSTANTS
    x = x
    y = y
    s1 = s1
    s2 = s2
    A = A
    B = B
    c1 = c1
    c2 = c2
    Attempts = {x, y}
    Services = {s1, s2}
    Workspaces = {A, B}
    Containers = {c1, c2}
    NoContainer = NoContainer
INVARIANT OneBuildPerWorkspace
