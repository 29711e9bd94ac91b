SPECIFICATION Spec
CONSTANTS
    Size = 7
    Grans = {1, 2, 4}
INVARIANTS
    FirstFitCorrect
    RetryFindsFirstUnheld
    PendingPassCorrect
    TrimPassCorrect
