CONSTANTS
    Notes = {n1, n2}
    Keys = {k}
    Visibilities = {"public", "direct"}
    MaxVersions = 3
    Workers = {w1, w2}
    None = None
SYMMETRY Symmetry
SPECIFICATION Spec
INVARIANTS TypeOK AnswersAgree HandedOutIsPublished DeleteIsHandedOut HistoryIsComplete
CHECK_DEADLOCK FALSE
