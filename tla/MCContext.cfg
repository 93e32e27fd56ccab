CONSTANTS
    Task = {t1, t2, idle}
    IDLE = idle
    MAIN = main
SPECIFICATION Spec
SYMMETRY Symmetry
INVARIANTS
    ProgramUndisturbed
    CallUndisturbed
