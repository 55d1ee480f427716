CONSTANTS
    v = v
    p = p
    a = a
    b = b
    Accounts = {v, p, a, b}
    Locals = {v, p}
    Viewers = {v}
    Notes = {n}
    Posts <- MCPosts
    Audiences <- MCAudiences
    Visibilities = {"public", "private"}
    PUBLIC_GROUP = PUBLIC_GROUP
    Followers <- MCFollowers
    NoFollowers = {b}
    Limit = 1
    ListLimits = {1, 2}
    Dates = {1, 2}
    Listed = {p, b}
    FollowPairs <- MCFollowPairs
    BlockPairs <- MCBlockPairs
    MutePairs <- MCMutePairs
    Workers = {w1, w2}
    MaxChanges = 3
    None = None
SYMMETRY Symmetry
SPECIFICATION Spec
INVARIANTS TypeOK ShownIsEntitled HomeIsOpenable ListWithinHome SettledHomeHides
CHECK_DEADLOCK FALSE
