\* Two source files, two header names, 1024 header trees.
CONSTANTS
    src1 = src1
    src2 = src2
    inc = inc
    sys = sys
    m = m
    a = a
    b = b
    Dirs = {src1, src2, inc, sys}
    Names = {m, a, b}
    NoCall = NoCall
    Calls <- MCCalls
    Trees <- MCTrees
    SysI <- MCSysI
    SysIsystem <- MCSysIsystem
SPECIFICATION Spec
INVARIANTS
    RequiresOnlyReachable
    RequiresUncached
    RecursionBounded
