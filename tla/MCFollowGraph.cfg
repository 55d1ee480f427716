CONSTANTS
    alice = alice
    carol = carol
    bob = bob
    eve = eve
    Locals <- MCLocals
    Remotes <- MCRemotes
    Locked <- MCLocked
    Workers = {w1, w2}
    Requests <- MCRequests
    MoveLists <- MCMoveLists
SPECIFICATION Spec
INVARIANTS TypeOK BlockSevers InteractionCountSound AcceptIsGranted
PROPERTY FollowEndsByItsParties
