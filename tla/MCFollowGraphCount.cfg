CONSTANTS
    alice = alice
    carol = carol
    bob = bob
    eve = eve
    Locals <- MCLocals
    Remotes <- MCRemotes
    Locked <- AnswerLocked
    Workers = {w1, w2}
    Requests <- MoveRequests
    MoveLists <- MoveListsWithLocal
SPECIFICATION Spec
INVARIANT InteractionCountAccurate
