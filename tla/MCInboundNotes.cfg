CONSTANTS
    note = note
    alice = alice
    carol = carol
    createA = createA
    createC = createC
    delete = delete
    Messages <- MCMessages
    Unregistered <- MCUnregistered
    Consumers = {c1, c2}
    MaxBatch = 2
    MaxRetries = 1
    Notes <- MCNotes
    Creates <- MCCreates
    NoteOf <- MCNoteOf
    Recipients <- MCRecipients
    ByAuthor <- MCByAuthor
    InboxOf <- MCInboxOf
    Limit = 1
    Busy = {alice}
    MaxNewer = 1
SPECIFICATION Spec
INVARIANTS TypeOK AnnouncedOnce AnnouncedToAll SettledDeleteIsFinal MentionIsCached
SYMMETRY MCSymmetry
CHECK_DEADLOCK FALSE
