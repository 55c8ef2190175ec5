\* A packet evaluation racing a removal and an add that reuses the freed
\* enclave slot: the verdict is taken with another enclave's app.
CONSTANTS
    Ip = {1, 2}
    Hash = {h1, h2}
    Host = {1}
    Names <- MCOneName
    MaxCatNameLength = 3
    EncSlot = {e1, e2}
    AppSlot = {a1, a2}
    MaxCats = 4
    MayFail = FALSE
    NULL = NULL
    Rule <- MCPacketRules
    PacketAddr = {1}
    ControlMsg <- MCAbaMsg
SPECIFICATION PathSpec
SYMMETRY MCSlotSymmetry
CHECK_DEADLOCK FALSE
INVARIANT VerdictLinearizable
