\* Three rows of the subject, pages of two.
SPECIFICATION ListingSpec
CONSTANTS
    Ids = {1, 2, 3}
    Mine = {1, 2, 3}
    Few = {1, 2}
    Asked = {3}
    Decisions = {"confirmed_phish"}
    Principals = {analyst}
    Nobody = nobody
    StoreBodies = FALSE
    MaxLimit = 2
    DefaultLimit = 1
INVARIANTS ExportIsComplete TearsAreWrites
