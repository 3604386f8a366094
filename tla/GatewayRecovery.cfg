SPECIFICATION FairSpec
CONSTANTS
    c1 = c1
    c2 = c2
    c3 = c3
    chat_model = chat_model
    classify_model = classify_model
    Chats = {c1, c2}
    Models = {chat_model, classify_model}
    MaxInflight = 1
    Cap = 1
    Cost = 1
    FallbackConfigured = TRUE
    Pinned = TRUE
    Faults = {"hang_up", "database"}
    SpendBound = 1
    LeakBound = 1
INVARIANT SlotsNeverFreedTwice
PROPERTY WarmBoxComesBack
PROPERTY DeadBoxIsBenched
