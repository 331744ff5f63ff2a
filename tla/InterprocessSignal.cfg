SPECIFICATION FairSpec
CONSTANTS
    Builds = {"windows", "futex", "posix"}
    Procs = {p1, p2, p3}
INVARIANTS
    NoForgottenSleeper
PROPERTY SignalIsTaken
