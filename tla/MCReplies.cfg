CONSTANTS
    here = here
    r1 = r1
    r2 = r2
    LocalNotes = {here}
    RemoteNotes = {r1, r2}
    ReplyTo <- MCReplyTo
    MaxRows = 2
    Workers = {w1, w2}
    None = None
SYMMETRY Symmetry
SPECIFICATION Spec
INVARIANTS TypeOK LinksAgree RepliesCounted
CHECK_DEADLOCK FALSE
