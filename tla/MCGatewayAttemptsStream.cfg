SPECIFICATION FairSpec
CONSTANTS
    Keys = {"a", "b", "c"}
    Providers = {"p1", "p2"}
    LastLayer = 2
    ProviderOf <- MCProviderOf
    KeysOf <- MCKeysOf
    RetryCount = 1
    MaxCycles = 3
    MaxEmpty = 1
    MaxReasoning = 1
    CapRetries = 2
    Modes = {TRUE, FALSE}
    OpenRouter = TRUE
    Answers = {"ok", "stream", "empty", "reasoning", "capacity", "down", "too long"}
    StreamEnds = {"shown", "empty", "thinking", "cut", "capacity", "rate"}
    Local = {}
    Changes = {}
INVARIANTS
    EndIsTrue
PROPERTIES
    NoFetchAfterVisible
    Terminates
