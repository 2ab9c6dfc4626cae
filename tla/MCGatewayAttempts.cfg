SPECIFICATION Spec
CONSTANTS
    Keys = {"a", "b", "c"}
    Providers = {"p1", "p2"}
    LastLayer = 2
    ProviderOf <- MCProviderOf
    KeysOf <- MCKeysOf
    RetryCount = 0
    MaxCycles = 5
    MaxEmpty = 1
    MaxReasoning = 3
    CapRetries = 2
    Modes = {TRUE, FALSE}
    OpenRouter = TRUE
    Answers = {"ok", "quota", "rate", "server", "rejected", "stream"}
    StreamEnds = {"shown", "rate", "capacity"}
    Local = {"limited", "full", "ejected", "cached", "loop stop"}
    Changes = {"key lost", "disabled"}
INVARIANTS
    AllAsked
