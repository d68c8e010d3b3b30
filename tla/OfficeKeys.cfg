SPECIFICATION MCSpec
CONSTANTS
    Items = {"i1", "i2"}
    Milestones = {"m1"}
    Modules = {"p1"}
    Moves = {"a"}
    Patches = {"paused"}
    Hours = {30}
    Rates = {0, 2}
    Margins = {0}
    Shares = {10000}
    Discounts = {1000}
    HandTotals = {5}
    MaxPlace = 30
    MaxVersions = 2
    MaxCrashes = 1
    Proposals = {0, 1}
    KitSize = 1
    ByHand = {1}
    MaxNumber = 2
    MaxAsks = 2
    MaxConvs = 2
    Clients = {"c1"}
    People = {"h1"}
    Projects = {"p1", "p2"}
    Codes = {"A"}
    Conns = {"k1", "k2"}
    Names = {"n1", "n2"}
    Values = {1, 2}
    Variables = {"v1"}
    Expenses = {"e1"}
    Notices = {"i1", "i2"}
    MaxSessions = 2
    Avds = {"a1", "a2"}
    Boots = {"b1", "b2"}
    Serials = {"s1", "s2"}
    Apps = {"x1", "x2", "x3"}
    Sockets = {"w1", "w2", "w3"}
    MaxRestarts = 1
    Attempts = {"r1", "r2", "r3"}
    SetUps = 1
    Verifies = 1
    MaxKept = 2
    MaxRepairs = 1
    MaxDeaths = 1
    Nodes = {"d1", "d2"}
    Stories = {"u1", "u2"}
    MaxJobs = 3
    MaxCuts = 1
    MaxTurns = 2
    LastPhase = 3
    Desks = {"keys"}
INVARIANT SecretsSurviveRestart
CHECK_DEADLOCK FALSE
