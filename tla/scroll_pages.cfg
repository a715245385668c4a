\* Two clusters share one name, a search opens a scroll context and renders its pages.
SPECIFICATION ScrollSpec
CONSTANTS
    c1 = c1
    c2 = c2
    n1 = n1
    o1 = o1
    o2 = o2
    o3 = o3
    o4 = o4
    o5 = o5
    p1 = p1
    r1 = r1
    s1 = s1
    s2 = s2
    empty = empty
    written = written
    Nil = Nil
    Pit = {p1}
    Reader = {r1}
    Empty = empty
    Cluster = {c1, c2}
    Name = {n1}
    Obj = {o1, o2, o3}
    Data = {empty}
    Scroll = {s1}
SYMMETRY Symmetric
PROPERTIES
    RegisteredPagesAreStable
