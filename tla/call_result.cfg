\* Every sequence of constructions, copies, moves and destructions.
SPECIFICATION Spec
CONSTANTS
    Objects = {r1, r2, r3}
    Zones = {z1, z2, z3, z4}
    Data = {d1}
    Keys <- MCKeys
    Types = {"int", "str"}
    MaxItems = 2
    r1 = r1
    r2 = r2
    r3 = r3
    z1 = z1
    z2 = z2
    z3 = z3
    z4 = z4
    d1 = d1
SYMMETRY Symmetry
INVARIANTS NothingDangles 
PROPERTY ValueSemantics
