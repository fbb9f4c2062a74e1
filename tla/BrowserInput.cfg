\* One browser: browsers share nothing but the relay, which is the environment here.
\* Three intents: one sent, one queued behind it and one after a new epoch opens.
SPECIFICATION FairBrowserSpec
CONSTANTS
    Kinds = {"key", "resize", "text"}
    Clients = {c1}
    MaxFence = 2
    MaxIntents = 3
    MaxCount = 2
    MaxPending = 2
INVARIANTS
    WireHasNoGap
    LedgerWithinLimits
    OpenEpochIsProven
PROPERTIES
    ResultsAreFinal
    EveryIntentSettles
