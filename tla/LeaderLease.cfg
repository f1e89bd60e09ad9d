SPECIFICATION FairSpec
CONSTANTS
    r1 = r1
    r2 = r2
    t1 = t1
    s1 = s1
    h1 = h1
    t2 = t2
    Replicas = {r1, r2}
    Loops = {t1, s1, h1, t2}
    FlagLoops = {h1}
    Home <- HomeOf
    TTL = 3
    NoOne = NoOne
    Ghost = Ghost
INVARIANTS
    TypeOK
    GrantsExclusive
    GrantBacked
PROPERTIES
    NoTheft
    PassesKeepComing
