SPECIFICATION Spec
CONSTANTS
    home = home
    s1 = s1
    dff = dff
    engine = engine
    h1 = h1
    h2 = h2
    None = None
    Torn = Torn
    Empty = Empty
    Servers = {home, s1}
    Home = home
    Keys = {dff, engine}
    Sounds = {engine}
    Hashes = {h1, h2}
    Waves = {h2}
    Forgetful = FALSE
    SavesFail = FALSE
    MaxRequests = 3
    MaxRuns = 3
    MaxInvalidations = 1
    MaxFailures = 1
INVARIANTS ReturnsExpected StoredIsFound InvalidatedIsGone
CHECK_DEADLOCK FALSE
