\* Two threads, a table of three entries, four registrations.
SPECIFICATION Spec
CONSTANTS
    Threads = {t1, t2}
    short = short
    long = long
    cut = cut
    Schemes <- MCSchemes
    Stored <- MCStored
    NoScheme = no_scheme
    MaxSchemes = 3
    Excess = 1
    Overlap = FALSE
CHECK_DEADLOCK FALSE
INVARIANT
    FirstRegistrationWins
PROPERTY FoundStaysFound
