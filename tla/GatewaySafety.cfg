SPECIFICATION Spec
CONSTANTS
    c1 = c1
    c2 = c2
    c3 = c3
    chat_model = chat_model
    classify_model = classify_model
    Chats = {c1, c2, c3}
    Models = {chat_model}
    MaxInflight = 2
    Cap = 2
    Cost = 1
    FallbackConfigured = TRUE
    Pinned = FALSE
    Faults = {"restart", "garbled"}
    SpendBound = 6
    LeakBound = 2
INVARIANT InflightCounts
INVARIANT SpendBounded
SYMMETRY ChatSymmetry
