SPECIFICATION FairSpec
CONSTANTS
    Posters = {p1, p2}
    Fetchers = {f1}
    PostOps = {"post", "trypost"}
    FetchOps = {"fetch", "timedfetch", "tryfetch"}
    Msgs = {m1, m2}
    NoMsg = NoMsg
    Size = 3
    MaxPosts = 4
INVARIANTS
    TypeOK
    FirstInFirstOut
    PosterIsWoken
    FetcherIsWoken
PROPERTIES
    PostsGoOn
    EveryMessageArrives
CHECK_DEADLOCK FALSE
