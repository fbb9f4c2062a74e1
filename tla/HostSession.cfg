\* One writer under two fences with one result remembered, and three events in segments
\* of two under a budget of two, so that a full journal and an old one both evict.
SPECIFICATION Spec
CONSTANTS
    Clients = {alice}
    Epochs = {e1}
    MaxFence = 2
    MaxInputSeq = 2
    DedupEntries = 1
    MaxEvents = 3
    SegmentFrames = 2
    JournalFrames = 2
INVARIANTS
    LogIsOrdered
    AnswersMatchLog
    ReplayIsExact
    SubscriberMissesNothing
