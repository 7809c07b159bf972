SPECIFICATION Spec
CONSTANTS
    Formats = {"msgpack", "json"}
    Reserved = 2
    MaxDoc = 5
    Counts = {0, 1, 2}
    MaxEntered = 3
CHECK_DEADLOCK FALSE
INVARIANTS
    WellFormed
    JsonParsed
    MsgpackInStep
    JsonInStep
