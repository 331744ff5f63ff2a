SPECIFICATION Spec
CONSTANTS
    Builds = {"futex"}
    Procs = {p1, p2, p3}
PROPERTY ReturnTakesASignal
