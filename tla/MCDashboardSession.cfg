CONSTANTS
    b1 = b1
    b2 = b2
    Beats <- MCBeats
    StartupBeat = b1
    ReLogin = TRUE

SPECIFICATION Spec
INVARIANT RegisteredWhileServing
