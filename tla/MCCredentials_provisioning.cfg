SPECIFICATION Spec
CONSTANTS
    p1 = p1
    p2 = p2
    Procs <- MCProcs
    MaxKey = 3
    Times <- MCTimes
    None = None
SYMMETRY Symmetry
INVARIANTS
    
    IssuedLoads
PROPERTIES
    NeverOverwrites
