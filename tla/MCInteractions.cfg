CONSTANTS
    alice = alice
    rob = rob
    note = note
    announce = announce
    Locals = {alice}
    Remotes = {rob}
    Notes = {note}
    RemoteNotes = {note}
    LocalActivities = {a1, a2}
    Announces = {announce}
    AnnounceOf <- MCAnnounceOf
    OutboxIds = {o1, o2, o3}
    Workers = {w1, w2}
    None = None
SYMMETRY Symmetry
SPECIFICATION Spec
INVARIANTS TypeOK InteractionsProtect CountersSettle ReblogsArePublished UndoneIsGone
CHECK_DEADLOCK FALSE
